---------------------------- MODULE Spec2Model ----------------------------
(***************************************************************************)
(* A model of pooltool's event-driven billiards engine.                    *)
(*                                                                         *)
(* Real numbers are fixed-point integers: the real x is the integer        *)
(* x * SCALE, products and quotients are rounded toward zero (a            *)
(* sign-symmetric rounding, as IEEE-754 rounding is).                      *)
(***************************************************************************)
EXTENDS Integers, Sequences, FiniteSets, TLC

\* Fixed-point resolution: the integer that stands for the real 1.0.
SCALE == 1000

\* The iteration counter of collide_balls saturates here (Python's int is unbounded).
MaxIters == 12

\* The number of impulse steps N that collide_balls aims at (1000 by default in
\* the source, scaled down so that one call is a short run).
NSteps == 3

(***************************************************************************)
(* pooltool/constants.py                                                   *)
(***************************************************************************)
stationary == 0
spinning == 1
sliding == 2
rolling == 3
pocketed == 4

nontranslating == {stationary, spinning, pocketed}
energetic == {spinning, sliding, rolling}

\* float('inf'): larger than every fixed-point value of the model.
INF == 2147483647
\* Python's None for an optional number (W_c, deltaP); every number it replaces is >= 0.
NONE == -1

(***************************************************************************)
(* Fixed-point arithmetic                                                  *)
(***************************************************************************)
Abs(x) == IF x < 0 THEN -x ELSE x

\* Integer quotient rounded toward zero.
TDiv(a, b) ==
    IF (a >= 0) = (b > 0) THEN Abs(a) \div Abs(b) ELSE -(Abs(a) \div Abs(b))

Mul(a, b) == TDiv(a * b, SCALE)
FDiv(a, b) == TDiv(a * SCALE, b)
HALF == SCALE \div 2

RECURSIVE SqrtSearch(_, _, _)
\* The largest k in lo..hi-1 with k*k <= n, given lo*lo <= n < hi*hi.
SqrtSearch(n, lo, hi) ==
    IF hi - lo <= 1 THEN lo
    ELSE LET mid == (lo + hi) \div 2
         IN  IF mid * mid <= n THEN SqrtSearch(n, mid, hi) ELSE SqrtSearch(n, lo, mid)

\* sqrt(a**2 + b**2) and sqrt(dot(r, r)) of fixed-point values: the squares are
\* summed unrounded, so that a small magnitude does not vanish.
Hypot(a, b) == SqrtSearch(a * a + b * b, 0, 46341)
Norm(r) == SqrtSearch(r[1] * r[1] + r[2] * r[2] + r[3] * r[3], 0, 46341)

Dot(a, b) == Mul(a[1], b[1]) + Mul(a[2], b[2]) + Mul(a[3], b[3])
Cross(a, b) ==
    << Mul(a[2], b[3]) - Mul(a[3], b[2]),
       Mul(a[3], b[1]) - Mul(a[1], b[3]),
       Mul(a[1], b[2]) - Mul(a[2], b[1]) >>
VSub(a, b) == << a[1] - b[1], a[2] - b[2], a[3] - b[3] >>
VAdd(a, b) == << a[1] + b[1], a[2] + b[2], a[3] + b[3] >>
VScale(a, k) == << Mul(a[1], k), Mul(a[2], k), Mul(a[3], k) >>
VDiv(a, k) == << FDiv(a[1], k), FDiv(a[2], k), FDiv(a[3], k) >>

z_loc == << 0, 0, SCALE >>

(***************************************************************************)
(* collide_balls: the set-up before the loop                               *)
(***************************************************************************)
collide_setup(r_i, v_i, w_i, r_j, v_j, w_j, R, M, u_s1, u_s2, u_b, e_b, deltaP, N) ==
    LET r_ij == VSub(r_j, r_i)
        r_ij_mag == Norm(r_ij)
        y_loc == VDiv(r_ij, r_ij_mag)
        x_loc == Cross(y_loc, z_loc)
        v_ix == Dot(v_i, x_loc)
        v_iy == Dot(v_i, y_loc)
        v_jx == Dot(v_j, x_loc)
        v_jy == Dot(v_j, y_loc)
        w_ix == Dot(x_loc, w_i)
        w_iy == Dot(y_loc, w_i)
        w_iz == Dot(z_loc, w_i)
        w_jx == Dot(x_loc, w_j)
        w_jy == Dot(y_loc, w_j)
        w_jz == Dot(z_loc, w_j)
        u_iR_x == v_ix + Mul(R, w_iy)
        u_iR_y == v_iy - Mul(R, w_ix)
        u_jR_x == v_jx + Mul(R, w_jy)
        u_jR_y == v_jy - Mul(R, w_jx)
        u_ijC_x == v_ix - v_jx - Mul(R, w_iz + w_jz)
        u_ijC_z == Mul(R, w_ix + w_jx)
        v_ijy == v_jy - v_iy
    IN  [ x_loc |-> x_loc, y_loc |-> y_loc,
          R |-> R, M |-> M, u_s1 |-> u_s1, u_s2 |-> u_s2, u_b |-> u_b, e_b |-> e_b,
          v_ix |-> v_ix, v_iy |-> v_iy, v_jx |-> v_jx, v_jy |-> v_jy,
          w_ix |-> w_ix, w_iy |-> w_iy, w_iz |-> w_iz,
          w_jx |-> w_jx, w_jy |-> w_jy, w_jz |-> w_jz,
          u_iR_x |-> u_iR_x, u_iR_y |-> u_iR_y,
          u_jR_x |-> u_jR_x, u_jR_y |-> u_jR_y,
          u_iR_xy_mag |-> Hypot(u_iR_x, u_iR_y),
          u_jR_xy_mag |-> Hypot(u_jR_x, u_jR_y),
          u_ijC_x |-> u_ijC_x, u_ijC_z |-> u_ijC_z,
          u_ijC_xz_mag |-> Hypot(u_ijC_x, u_ijC_z),
          v_ijy |-> v_ijy,
          deltaP |-> IF deltaP = NONE
                        THEN TDiv(Mul(Mul(Mul(HALF, SCALE + e_b), M), Abs(v_ijy)), N)
                        ELSE deltaP,
          C |-> FDiv(5 * SCALE, Mul(Mul(2 * SCALE, M), R)),
          W_f |-> INF, W_c |-> NONE, W |-> 0, niters |-> 0 ]

(***************************************************************************)
(* collide_balls: the loop                                                 *)
(***************************************************************************)
\* while v_ijy < 0 or W < W_f
collide_continues(l) == l.v_ijy < 0 \/ l.W < l.W_f

\* The impulse deltas of one iteration.  1e-16 is below the fixed-point
\* resolution: a magnitude is < 1e-16 exactly when its integer is 0.
impulse_deltas(l) ==
    LET zero == [ deltaP_1 |-> 0, deltaP_2 |-> 0,
                  deltaP_ix |-> 0, deltaP_iy |-> 0, deltaP_jx |-> 0, deltaP_jy |-> 0 ]
    IN  IF l.u_ijC_xz_mag < 1 THEN zero
        ELSE LET deltaP_1 == FDiv(Mul(Mul(-l.u_b, l.deltaP), l.u_ijC_x), l.u_ijC_xz_mag)
             IN  IF Abs(l.u_ijC_z) < 1
                 THEN [ zero EXCEPT !.deltaP_1 = deltaP_1 ]
                 ELSE LET deltaP_2 ==
                              FDiv(Mul(Mul(-l.u_b, l.deltaP), l.u_ijC_z), l.u_ijC_xz_mag)
                      IN  IF deltaP_2 > 0
                          THEN IF l.u_jR_xy_mag = 0
                               THEN [ zero EXCEPT !.deltaP_1 = deltaP_1,
                                                  !.deltaP_2 = deltaP_2 ]
                               ELSE [ zero EXCEPT
                                        !.deltaP_1 = deltaP_1,
                                        !.deltaP_2 = deltaP_2,
                                        !.deltaP_jx = Mul(Mul(-l.u_s2,
                                            FDiv(l.u_jR_x, l.u_jR_xy_mag)), deltaP_2),
                                        !.deltaP_jy = Mul(Mul(-l.u_s2,
                                            FDiv(l.u_jR_y, l.u_jR_xy_mag)), deltaP_2) ]
                          ELSE IF l.u_iR_xy_mag = 0
                               THEN [ zero EXCEPT !.deltaP_1 = deltaP_1,
                                                  !.deltaP_2 = deltaP_2 ]
                               ELSE [ zero EXCEPT
                                        !.deltaP_1 = deltaP_1,
                                        !.deltaP_2 = deltaP_2,
                                        !.deltaP_ix = Mul(Mul(l.u_s1,
                                            FDiv(l.u_iR_x, l.u_iR_xy_mag)), deltaP_2),
                                        !.deltaP_iy = Mul(Mul(l.u_s1,
                                            FDiv(l.u_iR_y, l.u_iR_xy_mag)), deltaP_2) ]

\* A work target that is linear in the restitution: (1 + e_b) * W_c.
work_target_linear(e_b, W_c) == Mul(SCALE + e_b, W_c)

\* The work target once the compression phase has ended.
work_target(e_b, W_c) == Mul(SCALE + Mul(e_b, e_b), W_c)

\* One pass through the body of the while loop.
collide_iteration(l) ==
    LET d == impulse_deltas(l)
        v_ix == l.v_ix + FDiv(d.deltaP_1 + d.deltaP_ix, l.M)
        v_jx == l.v_jx + FDiv(-d.deltaP_1 + d.deltaP_jx, l.M)
        v_iy == l.v_iy + FDiv(-l.deltaP + d.deltaP_iy, l.M)
        v_jy == l.v_jy + FDiv(l.deltaP + d.deltaP_jy, l.M)
        w_ix == l.w_ix + Mul(l.C, d.deltaP_2 + d.deltaP_iy)
        w_iy == l.w_iy + Mul(l.C, -d.deltaP_ix)
        w_iz == l.w_iz + Mul(l.C, -d.deltaP_1)
        w_jx == l.w_jx + Mul(l.C, d.deltaP_2 + d.deltaP_jy)
        w_jy == l.w_jy + Mul(l.C, -d.deltaP_jx)
        w_jz == l.w_jz + Mul(l.C, -d.deltaP_1)
        u_iR_x == v_ix + Mul(l.R, w_iy)
        u_iR_y == v_iy - Mul(l.R, w_ix)
        u_jR_x == v_jx + Mul(l.R, w_jy)
        u_jR_y == v_jy - Mul(l.R, w_jx)
        u_ijC_x == v_ix - v_jx - Mul(l.R, w_iz + w_jz)
        u_ijC_z == Mul(l.R, w_ix + w_jx)
        v_ijy0 == l.v_ijy
        v_ijy == v_jy - v_iy
        W == l.W + Mul(Mul(HALF, l.deltaP), Abs(v_ijy0 + v_ijy))
        ends_compression == l.W_c = NONE /\ v_ijy > 0
    IN  [ l EXCEPT
            !.v_ix = v_ix, !.v_jx = v_jx, !.v_iy = v_iy, !.v_jy = v_jy,
            !.w_ix = w_ix, !.w_iy = w_iy, !.w_iz = w_iz,
            !.w_jx = w_jx, !.w_jy = w_jy, !.w_jz = w_jz,
            !.u_iR_x = u_iR_x, !.u_iR_y = u_iR_y,
            !.u_jR_x = u_jR_x, !.u_jR_y = u_jR_y,
            !.u_iR_xy_mag = Hypot(u_iR_x, u_iR_y),
            !.u_jR_xy_mag = Hypot(u_jR_x, u_jR_y),
            !.u_ijC_x = u_ijC_x, !.u_ijC_z = u_ijC_z,
            !.u_ijC_xz_mag = Hypot(u_ijC_x, u_ijC_z),
            !.v_ijy = v_ijy,
            !.W = W,
            !.niters = IF l.niters < MaxIters THEN l.niters + 1 ELSE l.niters,
            !.W_c = IF ends_compression THEN W ELSE l.W_c,
            !.W_f = IF ends_compression THEN work_target(l.e_b, W) ELSE l.W_f ]

\* The values collide_balls returns: the local velocities and spins mapped back
\* by G^T (the rows of G are x_loc, y_loc, z_loc).
to_global(l, a) == VAdd(VAdd(VScale(l.x_loc, a[1]), VScale(l.y_loc, a[2])),
                        VScale(z_loc, a[3]))

collide_result(l) ==
    [ v_i |-> to_global(l, << l.v_ix, l.v_iy, 0 >>),
      w_i |-> to_global(l, << l.w_ix, l.w_iy, l.w_iz >>),
      v_j |-> to_global(l, << l.v_jx, l.v_jy, 0 >>),
      w_j |-> to_global(l, << l.w_jx, l.w_jy, l.w_jz >>) ]

(***************************************************************************)
(* _resolve_ball_ball and FrictionalMathavan.solve                         *)
(***************************************************************************)
\* A slip: the whole velocity row is overwritten (rvw[1] = v1).
resolve_write_whole_row(rvw, v1, w1) == << rvw[1], v1, w1 >>

\* rvw is << r, v, w >>.  rvw[1,:2] = v1[:2]; rvw[2] = w1.
resolve_write(rvw, v1, w1) == << rvw[1], << v1[1], v1[2], rvw[2][3] >>, w1 >>

\* A slip: the resolved balls are labelled rolling.
solve_phase_rolling == rolling

\* The phase solve gives a ball it has resolved.
solve_phase == sliding

\* ball.state = BallState(rvw, const.sliding)
BallState(rvw, s) == [ rvw |-> rvw, s |-> s ]

BallIds == { "cue", "1", "2" }

VARIABLES
    balls,      \* id -> BallState: the system's balls
    params,     \* id -> BallParams (R, m, u_s, u_b, e_b)
    pre,        \* the balls as they were when the call in progress began
    call,       \* the call in progress: pc, the two balls, how it was invoked
    loc,        \* the local variables of collide_balls
    phase,      \* id -> phase tag of the ball in the system being evolved
    epc,        \* where the evolve loop is
    cands,      \* the candidate events of the detection pass
    sel,        \* the event selected as next
    cue_pending,\* the cue has been struck and its stick-ball event is due
    nevents,    \* events resolved in this evolve call
    limit,      \* the optional safety bound on events (NONE: no bound)
    truncated,  \* evolve stopped on the safety bound
    segs,       \* the LinearCushionSegment objects that exist
    ctor,       \* the LinearCushionSegment.__init__ call in progress
    table,      \* the table being built: its cushion_segments so far
    conc,       \* worker threads resolving on their Systems, and the module's values
    shots,      \* the interface: its mode and its collection of shots
    keys,       \* shot mode's key bindings, action states and what its tasks did
    handler,    \* the mode handler: current mode, keymap, accepted keystrokes
    fn          \* a function of the library being called, or the ruleset of a game

cvars == << balls, params, pre, call, loc >>
evars == << phase, epc, cands, sel, cue_pending, nevents, limit, truncated >>
\* The objects outside the shot being resolved or evolved.
yvars == << conc, shots >>
zvars == << keys, handler, fn >>
xvars == << segs, ctor, table, conc, shots, keys, handler, fn >>
vars == << balls, params, pre, call, loc,
           phase, epc, cands, sel, cue_pending, nevents, limit, truncated,
           segs, ctor, table, conc, shots, keys, handler, fn >>

NoLoc == [ niters |-> 0 ]
NoEvent == [ kind |-> "null", agents |-> {}, time |-> INF ]
Idle == [ pc |-> "idle", b1 |-> "cue", b2 |-> "cue", via |-> "none" ]
NoCtor == [ pc |-> "idle", error |-> "none", last |-> "none" ]

\* Nothing outside the shot exists or is under way.
NoTable == [ pc |-> "none" ]
NoConc == [ pc |-> "none" ]
NoShots == [ mode |-> "none" ]
\* No segment is being built and no table is.
gNone == segs = {} /\ ctor = NoCtor /\ table = NoTable
\* No worker is resolving and no interface is open.
yNone == conc = NoConc /\ shots = NoShots
NoKeys == [ pc |-> "none" ]
NoHandler == [ pc |-> "none" ]
NoCall == [ pc |-> "none" ]
\* No keystroke is awaited, no mode handler exists, no function is called.
zNone == keys = NoKeys /\ handler = NoHandler /\ fn = NoCall
xInit == gNone /\ yNone /\ zNone

\* solve(ball1, ball2) up to the top of the loop of collide_balls.
solve_enter(ball1, ball2) ==
    /\ call.pc = "idle"
    /\ pre' = balls
    /\ call' = [ pc |-> "loop", b1 |-> ball1, b2 |-> ball2, via |-> "solve" ]
    /\ loc' = collide_setup(
                  balls[ball1].rvw[1], balls[ball1].rvw[2], balls[ball1].rvw[3],
                  balls[ball2].rvw[1], balls[ball2].rvw[2], balls[ball2].rvw[3],
                  params[ball1].R, params[ball1].m,
                  params[ball1].u_s, params[ball2].u_s,
                  TDiv(params[ball1].u_b + params[ball2].u_b, 2),
                  TDiv(params[ball1].e_b + params[ball2].e_b, 2),
                  NONE, NSteps)
    /\ UNCHANGED << balls, params >>
    /\ UNCHANGED xvars

\* _resolve_ball_ball(rvw1, rvw2, R, M, ..., deltaP=deltaP) called on its own,
\* with an explicit impulse step.
resolve_enter(ball1, ball2, deltaP) ==
    /\ call.pc = "idle"
    /\ pre' = balls
    /\ call' = [ pc |-> "loop", b1 |-> ball1, b2 |-> ball2, via |-> "resolve" ]
    /\ loc' = collide_setup(
                  balls[ball1].rvw[1], balls[ball1].rvw[2], balls[ball1].rvw[3],
                  balls[ball2].rvw[1], balls[ball2].rvw[2], balls[ball2].rvw[3],
                  params[ball1].R, params[ball1].m,
                  params[ball1].u_s, params[ball2].u_s,
                  TDiv(params[ball1].u_b + params[ball2].u_b, 2),
                  TDiv(params[ball1].e_b + params[ball2].e_b, 2),
                  deltaP, NSteps)
    /\ UNCHANGED << balls, params >>
    /\ UNCHANGED xvars

\* One iteration of the loop of collide_balls.
collide_step ==
    /\ call.pc = "loop"
    /\ collide_continues(loc)
    /\ loc' = collide_iteration(loc)
    /\ UNCHANGED << balls, params, pre, call >>
    /\ UNCHANGED evars
    /\ UNCHANGED xvars

\* The loop is left: collide_balls returns, _resolve_ball_ball writes the
\* result into its two arrays, and solve stores them with the sliding phase.
\* Called on its own, _resolve_ball_ball works on the arrays it was given.
collide_return ==
    /\ call.pc = "loop"
    /\ ~collide_continues(loc)
    /\ LET res == collide_result(loc)
           rvw1 == resolve_write(balls[call.b1].rvw, res.v_i, res.w_i)
           rvw2 == resolve_write(balls[call.b2].rvw, res.v_j, res.w_j)
       IN  balls' = [ balls EXCEPT
                        ![call.b1] = BallState(rvw1,
                            IF call.via = "solve" THEN solve_phase ELSE @.s),
                        ![call.b2] = BallState(rvw2,
                            IF call.via = "solve" THEN solve_phase ELSE @.s) ]
    /\ call' = [ call EXCEPT !.pc = "done" ]
    /\ UNCHANGED << params, pre, loc >>
    /\ UNCHANGED evars
    /\ UNCHANGED xvars

(***************************************************************************)
(* The states a resolution starts from                                     *)
(***************************************************************************)
\* Ball radius (the unit of length) and the standard ball.
UnitBall == [ R |-> SCALE, m |-> SCALE, u_s |-> SCALE \div 5,
              u_b |-> SCALE \div 2, e_b |-> (9 * SCALE) \div 10 ]
\* An object ball of another make: heavier, grippier cloth contact, dead bounce.
HeavyBall == [ R |-> SCALE, m |-> 2 * SCALE, u_s |-> (2 * SCALE) \div 5,
               u_b |-> SCALE \div 2, e_b |-> SCALE \div 2 ]
\* A ball of the standard size and weight on another cloth contact.
GrippyBall == [ R |-> SCALE, m |-> SCALE, u_s |-> (2 * SCALE) \div 5,
                u_b |-> SCALE \div 4, e_b |-> SCALE \div 2 ]

Vec(x, y, z) == << x * SCALE, y * SCALE, z * SCALE >>

\* Motions a ball can be in when it is resolved: << v, w, phase >>.
Motions ==
    { << Vec(0, 0, 0), Vec(0, 0, 0), stationary >>,
      << Vec(0, 0, 0), Vec(0, 0, 0), pocketed >>,
      << Vec(0, 0, 0), Vec(0, 0, 2), spinning >>,
      << Vec(0, 2, 0), Vec(-2, 0, 0), rolling >>,
      << Vec(0, -2, 0), Vec(2, 0, 0), rolling >>,
      << Vec(1, 2, 0), Vec(1, 0, 3), sliding >>,
      << Vec(2, 0, 0), Vec(0, 0, 0), sliding >>,
      << Vec(0, 2, 1), Vec(0, 1, 0), sliding >> }

\* Where ball "1" touches the cue ball, which lies at the origin of the
\* cloth: straight ahead, to the side, and on a 3-4-5 diagonal.
Contacts ==
    { << 0, 2 * SCALE, SCALE >>, << 2 * SCALE, 0, SCALE >>,
      << (6 * SCALE) \div 5, (8 * SCALE) \div 5, SCALE >> }

\* An explicit impulse step for a call that passes deltaP.
GivenDeltaP == SCALE

cInit ==
    /\ \E mc \in Motions, m1 \in Motions, c \in Contacts :
          balls = [ b \in BallIds |->
                      CASE b = "cue" -> BallState(<< << 0, 0, SCALE >>, mc[1], mc[2] >>, mc[3])
                        [] b = "1" -> BallState(<< c, m1[1], m1[2] >>, m1[3])
                        [] OTHER -> BallState(<< << 5 * SCALE, 5 * SCALE, SCALE >>,
                                                 Vec(0, 2, 0), Vec(-2, 0, 0) >>, rolling) ]
    /\ \E p1 \in { UnitBall, GrippyBall, HeavyBall } :
          params = [ b \in BallIds |-> IF b = "1" THEN p1 ELSE UnitBall ]
    /\ pre = balls
    /\ call = Idle
    /\ loc = NoLoc
    /\ phase = [ b \in BallIds |-> balls[b].s ]
    /\ epc = "off"
    /\ cands = {}
    /\ sel = NoEvent
    /\ cue_pending = FALSE
    /\ nevents = 0
    /\ limit = NONE
    /\ truncated = FALSE
    /\ xInit

\* The pairs in contact: the cue ball and ball "1", in either order.
cNext ==
    \/ \E b1 \in { "cue", "1" }, b2 \in { "cue", "1" } :
          b1 # b2 /\ solve_enter(b1, b2) /\ UNCHANGED evars
    \/ \E b1 \in { "cue", "1" }, b2 \in { "cue", "1" } :
          b1 # b2 /\ resolve_enter(b1, b2, GivenDeltaP) /\ UNCHANGED evars
    \/ collide_step
    \/ collide_return

SpecCollide == cInit /\ [][cNext]_vars

(***************************************************************************)
(* The evolve loop (spec, sections 4.3, 4.4 and 5): detect the next event,  *)
(* advance every ball to its time, resolve it, until no ball is energetic. *)
(* Ball-ball events are resolved by FrictionalMathavan.solve.  The motion  *)
(* between events is not modelled: a detection pass finds some candidate   *)
(* times, and the state a ball is advanced to is some state of its phase.  *)
(***************************************************************************)
translating == { sliding, rolling }

\* The event count the optional safety bound of evolve is set to.
MaxEvents == 2

\* The times to a phase transition a detection pass can find.
Times == { 1, 2 }

\* The real roots the solver can find for a collision candidate: none that
\* is non-negative, or some.
RootSets == { { -1 }, { -1, 1, 2 } }

\* Section 4.1: the minimum non-negative real root, positive infinity if none.
min_nonneg_root(roots) ==
    LET ok == { x \in roots : x >= 0 }
    IN  IF ok = {} THEN INF ELSE CHOOSE x \in ok : \A y \in ok : x <= y

\* The phase-transition events a ball in phase s can be due for.
transitions_of(s) ==
    CASE s = sliding -> { "sliding_rolling" }
      [] s = rolling -> { "rolling_stationary", "rolling_spinning" }
      [] s = spinning -> { "spinning_stationary" }
      [] OTHER -> {}

Obstacles == { "ball_linear_cushion", "ball_circular_cushion", "ball_pocket" }

\* A slip: pocketed balls are not excluded from detection.
detectable_all(ph, b) == TRUE

\* Section 4.4, pocket: a pocketed ball is out of further detection.
detectable(ph, b) == ph[b] # pocketed

\* The candidates of one detection pass, as << kind, agents >>: a moving ball
\* against each kind of obstacle, and each pair of balls one of which moves.
obstacle_keys(ph) ==
    { << k, { b } >> : k \in Obstacles,
                       b \in { x \in BallIds : detectable(ph, x) /\ ph[x] \in translating } }

pair_keys(ph) ==
    { << "ball_ball", { a, b } >> : a \in { x \in BallIds : detectable(ph, x) },
                                    b \in { x \in BallIds : detectable(ph, x)
                                                /\ ph[x] \in translating } }
      \ { << "ball_ball", { b } >> : b \in BallIds }

\* The fixed priority of the event kinds, used between candidates of equal time.
priority(kind) ==
    CASE kind = "stick_ball" -> 0
      [] kind = "ball_ball" -> 1
      [] kind = "ball_linear_cushion" -> 2
      [] kind = "ball_circular_cushion" -> 3
      [] kind = "ball_pocket" -> 4
      [] OTHER -> 5

\* The candidates of cs that come first: least time, then least priority.
first_of(cs) ==
    LET earliest == { c \in cs : \A d \in cs : c.time <= d.time }
    IN  { c \in earliest : \A d \in earliest : priority(c.kind) <= priority(d.kind) }

\* A slip: the candidate of highest priority is taken whatever its time.
select_by_priority(cs) ==
    CHOOSE c \in cs : \A d \in cs : priority(c.kind) <= priority(d.kind)

\* Section 4.3: the candidate of globally minimal time, ties broken by the
\* fixed priority of the kinds.
select(cs) == CHOOSE c \in first_of(cs) : TRUE

\* A ball that takes no part in a resolution, with the phase tag s.
parked(s) == BallState(<< << 5 * SCALE, 5 * SCALE, SCALE >>, Vec(0, 0, 0), Vec(0, 0, 0) >>, s)

\* No ball has energetic motion and no strike is due.
quiescent == (\A b \in BallIds : phase[b] \notin energetic) /\ ~cue_pending

\* simulate(shot) is called.
evolve_enter ==
    /\ epc = "idle"
    /\ epc' = "loop"
    /\ nevents' = 0
    /\ truncated' = FALSE
    /\ UNCHANGED << phase, cands, sel, cue_pending, limit >>
    /\ UNCHANGED cvars
    /\ UNCHANGED xvars

\* The loop ends: every ball is stationary or pocketed.
evolve_stop ==
    /\ epc = "loop"
    /\ quiescent
    /\ epc' = "done"
    /\ UNCHANGED << phase, cands, sel, cue_pending, nevents, limit, truncated >>
    /\ UNCHANGED cvars
    /\ UNCHANGED xvars

\* The loop ends on the safety bound, and says so.
evolve_truncate ==
    /\ epc = "loop"
    /\ ~quiescent
    /\ limit # NONE /\ nevents >= limit
    /\ epc' = "done"
    /\ truncated' = TRUE
    /\ UNCHANGED << phase, cands, sel, cue_pending, nevents, limit >>
    /\ UNCHANGED cvars
    /\ UNCHANGED xvars

\* One detection pass: a time for every candidate, and the selection.
evolve_detect ==
    /\ epc = "loop"
    /\ ~quiescent
    /\ limit = NONE \/ nevents < limit
    /\ \E tr \in [ { b \in BallIds : phase[b] \in energetic } -> Times ],
          kd \in [ { b \in BallIds : phase[b] = rolling } ->
                      { "rolling_stationary", "rolling_spinning" } ],
          ob \in [ obstacle_keys(phase) \cup pair_keys(phase) -> RootSets ] :
          LET stick == IF cue_pending
                       THEN { [ kind |-> "stick_ball", agents |-> { "cue" }, time |-> 0 ] }
                       ELSE {}
              trans == { [ kind |-> IF phase[b] = rolling THEN kd[b]
                                    ELSE CHOOSE k \in transitions_of(phase[b]) : TRUE,
                           agents |-> { b }, time |-> tr[b] ] : b \in DOMAIN tr }
              coll == { [ kind |-> k[1], agents |-> k[2],
                          time |-> min_nonneg_root(ob[k]) ] : k \in DOMAIN ob }
          IN  /\ cands' = stick \cup trans \cup coll
              /\ sel' = select(cands')
    /\ epc' = "advance"
    /\ UNCHANGED << phase, cue_pending, nevents, limit, truncated >>
    /\ UNCHANGED cvars
    /\ UNCHANGED xvars

\* Where the first ball of a contact lies: on the cloth, at the origin.
Origin == << 0, 0, SCALE >>

\* The relative velocity of two balls along their line of centres, as
\* collide_balls computes it before its loop: negative when they close in.
normal_velocity(r_i, v_i, r_j, v_j) ==
    LET r_ij == VSub(r_j, r_i)
        y_loc == VDiv(r_ij, Norm(r_ij))
    IN  Dot(v_j, y_loc) - Dot(v_i, y_loc)

\* Every ball is advanced to the time of the selected event.  The balls of a
\* ball-ball event come into contact, not moving apart, each in some motion
\* of its phase.
evolve_advance ==
    /\ epc = "advance"
    /\ IF sel.kind = "ball_ball"
       THEN \E a \in sel.agents, b \in sel.agents, cfg \in Motions \X Motions \X Contacts :
               /\ a # b
               /\ cfg[1][3] = phase[a] /\ cfg[2][3] = phase[b]
               /\ normal_velocity(Origin, cfg[1][1], cfg[3], cfg[2][1]) <= 0
               /\ balls' = [ x \in BallIds |->
                               CASE x = a -> BallState(<< Origin, cfg[1][1], cfg[1][2] >>, cfg[1][3])
                                 [] x = b -> BallState(<< cfg[3], cfg[2][1], cfg[2][2] >>, cfg[2][3])
                                 [] OTHER -> parked(phase[x]) ]
       ELSE UNCHANGED balls
    /\ epc' = "resolve"
    /\ cands' = {}
    /\ UNCHANGED << phase, sel, cue_pending, nevents, limit, truncated >>
    /\ UNCHANGED << params, pre, call, loc >>
    /\ UNCHANGED xvars

\* The event count after one more event.
counted == IF limit = NONE THEN nevents ELSE nevents + 1

\* A resolver that runs as soon as the event is selected, on balls that have
\* not been advanced to its time.
relabel_unadvanced(kinds, s) ==
    /\ epc = "advance"
    /\ sel.kind \in kinds
    /\ phase' = [ b \in BallIds |-> IF b \in sel.agents THEN s ELSE phase[b] ]
    /\ balls' = [ b \in BallIds |-> parked(phase'[b]) ]
    /\ epc' = "loop"
    /\ nevents' = counted
    /\ UNCHANGED << cands, sel, limit, truncated >>
    /\ UNCHANGED << params, pre, call, loc >>
    /\ UNCHANGED xvars

\* The selected event is resolved by giving its ball the phase s.
relabel(kinds, s) ==
    /\ epc = "resolve"
    /\ sel.kind \in kinds
    /\ phase' = [ b \in BallIds |-> IF b \in sel.agents THEN s ELSE phase[b] ]
    /\ balls' = [ b \in BallIds |-> parked(phase'[b]) ]
    /\ epc' = "loop"
    /\ nevents' = counted
    /\ UNCHANGED << cands, sel, limit, truncated >>
    /\ UNCHANGED << params, pre, call, loc >>
    /\ UNCHANGED xvars

\* Section 4.4, stick-ball: the cue ball leaves in sliding.
resolve_stick_ball == relabel({ "stick_ball" }, sliding) /\ cue_pending' = FALSE

\* Section 4.4, cushions: the resulting phase is sliding.
resolve_cushion ==
    relabel({ "ball_linear_cushion", "ball_circular_cushion" }, sliding)
        /\ UNCHANGED cue_pending

\* Section 4.4, pocket: the ball is pocketed.
resolve_pocket == relabel({ "ball_pocket" }, pocketed) /\ UNCHANGED cue_pending

\* Section 4.4, phase transitions.
resolve_sliding_rolling == relabel({ "sliding_rolling" }, rolling) /\ UNCHANGED cue_pending
resolve_rolling_spinning == relabel({ "rolling_spinning" }, spinning) /\ UNCHANGED cue_pending
resolve_to_stationary ==
    relabel({ "rolling_stationary", "spinning_stationary" }, stationary)
        /\ UNCHANGED cue_pending

\* Section 4.4, ball-ball: solve is called on the two balls.
resolve_ball_ball ==
    /\ epc = "resolve"
    /\ sel.kind = "ball_ball"
    /\ \E b1 \in sel.agents, b2 \in sel.agents :
          /\ b1 # b2
          /\ balls[b1].rvw[1] = Origin
          /\ solve_enter(b1, b2)
    /\ epc' = "resolving"
    /\ UNCHANGED << phase, cands, sel, cue_pending, nevents, limit, truncated >>

\* solve has returned: the balls go back into the system.
resolved_ball_ball ==
    /\ epc = "resolving"
    /\ call.pc = "done"
    /\ phase' = [ b \in BallIds |-> balls[b].s ]
    /\ balls' = [ b \in BallIds |-> parked(phase'[b]) ]
    /\ pre' = balls'
    /\ call' = Idle
    /\ loc' = NoLoc
    /\ epc' = "loop"
    /\ nevents' = counted
    /\ UNCHANGED << cands, sel, cue_pending, limit, truncated, params >>
    /\ UNCHANGED xvars

\* Where a ball is respotted.
Spots == { << 0, 3 * SCALE, SCALE >> }

\* A respot that writes the whole of the ball's state: it comes to rest.
respot_at_rest(ball_id, xyz) ==
    /\ epc = "done"
    /\ balls' = [ balls EXCEPT ![ball_id] =
                     BallState(<< xyz, Vec(0, 0, 0), Vec(0, 0, 0) >>, stationary) ]
    /\ phase' = [ phase EXCEPT ![ball_id] = stationary ]
    /\ UNCHANGED << epc, cands, sel, cue_pending, nevents, limit, truncated >>
    /\ UNCHANGED << params, pre, call, loc >>
    /\ UNCHANGED xvars

\* Ruleset.respot(shot, ball_id, x, y, z), between two shots.
respot(ball_id, xyz) ==
    /\ epc = "done"
    /\ balls' = [ balls EXCEPT ![ball_id] =
                     BallState(<< xyz, @.rvw[2], @.rvw[3] >>, stationary) ]
    /\ phase' = [ phase EXCEPT ![ball_id] = stationary ]
    /\ UNCHANGED << epc, cands, sel, cue_pending, nevents, limit, truncated >>
    /\ UNCHANGED << params, pre, call, loc >>
    /\ UNCHANGED xvars

eInit ==
    /\ \E s1 \in { stationary, spinning, sliding, rolling } :
          phase = [ b \in BallIds |->
                      CASE b = "cue" -> stationary [] b = "1" -> s1 [] OTHER -> pocketed ]
    /\ balls = [ b \in BallIds |-> parked(phase[b]) ]
    /\ params = [ b \in BallIds |-> UnitBall ]
    /\ pre = balls
    /\ call = Idle
    /\ loc = NoLoc
    /\ epc = "idle"
    /\ cands = {}
    /\ sel = NoEvent
    /\ cue_pending = TRUE
    /\ nevents = 0
    /\ limit \in { NONE, MaxEvents }
    /\ truncated = FALSE
    /\ xInit

eNext ==
    \/ evolve_enter
    \/ evolve_stop
    \/ evolve_truncate
    \/ evolve_detect
    \/ evolve_advance
    \/ resolve_stick_ball
    \/ resolve_cushion
    \/ resolve_pocket
    \/ resolve_sliding_rolling
    \/ resolve_rolling_spinning
    \/ resolve_to_stationary
    \/ resolve_ball_ball
    \/ collide_step
    \/ collide_return
    \/ resolved_ball_ball
    \/ \E b \in BallIds, xyz \in Spots : respot(b, xyz)

SpecEvolve == eInit /\ [][eNext]_vars

(***************************************************************************)
(* solve as a function: the states solve(ball1, ball2) leaves the two      *)
(* balls in, computed by running the loop of collide_balls to its end.     *)
(***************************************************************************)
RECURSIVE collide_run(_, _)
\* The loop of collide_balls, at most `fuel` iterations of it.
collide_run(l, fuel) ==
    IF ~collide_continues(l) \/ fuel = 0 THEN l
    ELSE collide_run(collide_iteration(l), fuel - 1)

\* The locals of collide_balls when the loop of solve(ball1, ball2) is left,
\* for the balls bs with the parameters ps.
solve_locals(bs, ps, ball1, ball2) ==
    collide_run(
        collide_setup(
            bs[ball1].rvw[1], bs[ball1].rvw[2], bs[ball1].rvw[3],
            bs[ball2].rvw[1], bs[ball2].rvw[2], bs[ball2].rvw[3],
            ps[ball1].R, ps[ball1].m, ps[ball1].u_s, ps[ball2].u_s,
            TDiv(ps[ball1].u_b + ps[ball2].u_b, 2),
            TDiv(ps[ball1].e_b + ps[ball2].e_b, 2),
            NONE, NSteps),
        MaxIters)

\* The balls after solve(ball1, ball2) on the balls bs.
solve_result(bs, ps, ball1, ball2) ==
    LET res == collide_result(solve_locals(bs, ps, ball1, ball2))
    IN  [ bs EXCEPT
            ![ball1] = BallState(resolve_write(bs[ball1].rvw, res.v_i, res.w_i), solve_phase),
            ![ball2] = BallState(resolve_write(bs[ball2].rvw, res.v_j, res.w_j), solve_phase) ]

(***************************************************************************)
(* Properties of the ball-ball resolver                                    *)
(***************************************************************************)
\* The hard cap a bounded resolver would put on its iterations: the step is
\* chosen for about N iterations, three times that is generous.
HardCap == 3 * NSteps

\* The state of the loop apart from its iteration counter.
loop_state(l) == [ l EXCEPT !.niters = 0 ]

\* C2: collide_balls terminates after a bounded number of iterations: its
\* loop, which is deterministic, never comes to a state with the loop condition
\* true that the next iteration leaves as it is (from there it would run for
\* ever), and it is never found in the loop after MaxIters iterations.
C2_Terminates ==
    call.pc = "loop" =>
        /\ loc.niters < MaxIters
        /\ collide_continues(loc) =>
               loop_state(collide_iteration(loc)) # loop_state(loc)

\* C3: collide_balls never iterates beyond the hard cap: while it is in the
\* loop, it has run at most HardCap iterations (beyond that it would have to
\* stop with an error).
C3_NeverBeyondCap == call.pc = "loop" => loc.niters <= HardCap

\* C8: when solve(ball1, ball2) has returned, both balls are sliding.
C8_BothSliding ==
    (call.pc = "done" /\ call.via = "solve") =>
        balls[call.b1].s = sliding /\ balls[call.b2].s = sliding

\* C8 witness: solve has returned for a rolling ball and a pocketed or resting one.
C8_Witness ==
    /\ call.pc = "done" /\ call.via = "solve"
    /\ pre[call.b1].s = rolling
    /\ pre[call.b2].s \in { stationary, pocketed }
    /\ balls[call.b1].s = sliding

\* C9: the resolver leaves both positions, both vertical velocities and every
\* other ball as they were; while it runs, no ball is written at all.
C9_Frame ==
    /\ call.pc = "loop" => balls = pre
    /\ call.pc = "done" =>
          \A b \in BallIds :
             IF b \in { call.b1, call.b2 }
             THEN /\ balls[b].rvw[1] = pre[b].rvw[1]
                  /\ balls[b].rvw[2][3] = pre[b].rvw[2][3]
             ELSE balls[b] = pre[b]

\* C9 witness: a resolution has returned that changed the horizontal velocity
\* and the spin of a ball whose vertical velocity is not zero.
C9_Witness ==
    /\ call.pc = "done"
    /\ pre[call.b1].rvw[2][3] # 0
    /\ balls[call.b1].rvw[2] # pre[call.b1].rvw[2]
    /\ balls[call.b1].rvw[3] # pre[call.b1].rvw[3]
    /\ balls[call.b2].rvw[2] # pre[call.b2].rvw[2]

ListedTransitions ==
    { << stationary, spinning >>, << spinning, stationary >>,
      << stationary, sliding >>, << sliding, rolling >>,
      << rolling, stationary >>, << rolling, spinning >>,
      << spinning, pocketed >>, << sliding, pocketed >>, << rolling, pocketed >> }

\* What a collision does to a ball that is already energetic.
CollisionTransitions == { << rolling, sliding >>, << spinning, sliding >> }

\* Every change of a phase tag in this step of evolve is in the set allowed
\* and comes with the selected event naming the ball.
walk_within(allowed) ==
    epc # "done" =>
        \A b \in BallIds :
            phase'[b] # phase[b] =>
                << phase[b], phase'[b] >> \in allowed /\ b \in sel.agents

\* C1 as stated: during evolve every change of a phase tag is one of the
\* listed transitions and comes with an event that names the ball.
C1_ListedWalk == [][walk_within(ListedTransitions)]_vars

\* C1: during evolve every change of a phase tag is one of the listed
\* transitions or a collision putting a rolling or spinning ball into sliding,
\* and comes with an event that names the ball; so no ball goes from
\* stationary to rolling directly.
C1_Walk == [][walk_within(ListedTransitions \cup CollisionTransitions)]_vars

\* C1 witness: solve has returned inside evolve and left a ball that came in
\* rolling, and one that came in at rest, in sliding.
C1_Witness ==
    /\ epc = "resolving" /\ call.pc = "done"
    /\ phase[call.b1] = rolling /\ balls[call.b1].s = sliding
    /\ phase[call.b2] = stationary /\ balls[call.b2].s = sliding

\* C4: evolve stops in the end: it is never inside a ball-ball resolution
\* whose loop goes on and whose next iteration leaves the loop as it is (from
\* there evolve runs for ever, neither at rest nor truncated).
C4_NeverStuck ==
    (epc = "resolving" /\ call.pc = "loop" /\ collide_continues(loc)) =>
        loop_state(collide_iteration(loc)) # loop_state(loc)

C6_SelectsMinimum ==
    epc = "advance" =>
        /\ sel \in cands
        /\ \A c \in cands : sel.time <= c.time
        /\ (\E c \in cands : c.time < INF) => sel.time < INF

\* C6 witness: a pass with a candidate without a root that is ahead in
\* priority, a later candidate, and the earliest one selected.
C6_Witness ==
    /\ epc = "advance"
    /\ \E c \in cands : c.time = INF /\ priority(c.kind) < priority(sel.kind)
    /\ \E c \in cands : c.time < INF /\ c.time > sel.time
    /\ sel.time < INF

(***************************************************************************)
(* Energy across a ball-ball resolution                                    *)
(***************************************************************************)
\* A perfectly elastic pair, and a dead one: the two ends of the range of e_b.
ElasticBall == [ UnitBall EXCEPT !.e_b = SCALE ]
DeadBall == [ UnitBall EXCEPT !.e_b = 0 ]

\* Kinetic plus rotational energy of a ball of mass m and radius R, a solid
\* sphere: m |v|^2 / 2 + (2/5) m R^2 |w|^2 / 2.
ball_energy(rvw, R, m) ==
    Mul(HALF, Mul(m, Dot(rvw[2], rvw[2])))
        + Mul(HALF, Mul(Mul(Mul((2 * SCALE) \div 5, m), Mul(R, R)), Dot(rvw[3], rvw[3])))

\* The energy of the two balls of the resolution in the states bs.
pair_energy(bs) ==
    ball_energy(bs[call.b1].rvw, params[call.b1].R, params[call.b1].m)
        + ball_energy(bs[call.b2].rvw, params[call.b2].R, params[call.b2].m)

\* What rounding can add to the energy of a pair: a few units in the last place.
Slack == 20

\* Both balls of one make, elastic or dead, touching and closing in.
nInit ==
    /\ \E mc \in Motions, m1 \in Motions, c \in Contacts :
          /\ normal_velocity(Origin, mc[1], c, m1[1]) < 0
          /\ balls = [ b \in BallIds |->
                         CASE b = "cue" -> BallState(<< Origin, mc[1], mc[2] >>, mc[3])
                           [] b = "1" -> BallState(<< c, m1[1], m1[2] >>, m1[3])
                           [] OTHER -> parked(pocketed) ]
    /\ \E p \in { ElasticBall, DeadBall } : params = [ b \in BallIds |-> p ]
    /\ pre = balls
    /\ call = Idle
    /\ loc = NoLoc
    /\ phase = [ b \in BallIds |-> balls[b].s ]
    /\ epc = "off"
    /\ cands = {}
    /\ sel = NoEvent
    /\ cue_pending = FALSE
    /\ nevents = 0
    /\ limit = NONE
    /\ truncated = FALSE
    /\ xInit

nNext ==
    \/ solve_enter("cue", "1") /\ UNCHANGED evars
    \/ collide_step
    \/ collide_return

SpecEnergy == nInit /\ [][nNext]_vars

\* C11: when the resolution of two balls that were closing in has returned,
\* the energy of the two balls is not greater than it was before (up to
\* rounding).
C11_EnergyNotIncreased ==
    call.pc = "done" => pair_energy(balls) <= pair_energy(pre) + Slack

(***************************************************************************)
(* LinearCushionSegment.__init__ (objects/table.py)                        *)
(***************************************************************************)
\* The ids segments are made with.
SegIds == { "3", "12" }

\* Pairs of end points << p1, p2 >> a segment is made from: along x, along y
\* (p2x = p1x), on a diagonal, and with two different heights.
EndPoints ==
    { << Vec(0, 0, 1), Vec(2, 0, 1) >>,
      << Vec(0, 0, 1), Vec(0, 2, 1) >>,
      << Vec(0, 1, 2), Vec(2, 2, 2) >>,
      << Vec(0, 0, 1), Vec(2, 0, 2) >> }

\* The values passed as direction.
Directions == { -1, 0, 1, 2, 3 }

\* def __init__(self, cushion_id, p1, p2, direction=2)
direction_default == 2

\* A slip: the heights of the end points are not compared.
heights_unchecked(p1z, p2z) == FALSE

\* if p1z != p2z: raise ValueError
heights_differ(p1z, p2z) == p1z # p2z

\* A slip: the range check is one too wide.
direction_up_to_three(direction) == direction \notin { 0, 1, 2, 3 }

\* if direction not in {0, 1, 2}: raise ConfigError
direction_rejected(direction) == direction \notin { 0, 1, 2 }

\* utils.unit_vector_fast
unit_vector_fast(v) == VDiv(v, Norm(v))

\* The call LinearCushionSegment(cushion_id, p1, p2, direction) begins: the
\* id and the two points are stored.
ctor_call(cushion_id, p1, p2, direction) ==
    /\ ctor.pc = "idle"
    /\ ctor' = [ pc |-> "heights", direction |-> direction,
                 self |-> [ id |-> cushion_id, p1 |-> p1, p2 |-> p2 ],
                 error |-> "none" ]
    /\ UNCHANGED << segs, table, cvars, evars, yvars, zvars >>

\* The heights are compared; if they agree the height, the line and its
\* normal are stored.
ctor_heights ==
    /\ ctor.pc = "heights"
    /\ LET p1 == ctor.self.p1
           p2 == ctor.self.p2
           dx == p2[1] - p1[1]
           dy == p2[2] - p1[2]
           lx == IF dx = 0 THEN SCALE ELSE -FDiv(dy, dx)
           ly == IF dx = 0 THEN 0 ELSE SCALE
           l0 == IF dx = 0 THEN -p1[1] ELSE Mul(FDiv(dy, dx), p1[1]) - p1[2]
       IN  IF heights_differ(p1[3], p2[3])
           THEN ctor' = [ ctor EXCEPT !.pc = "raised", !.error = "ValueError" ]
           ELSE ctor' = [ ctor EXCEPT
                            !.pc = "direction",
                            !.self = [ id |-> @.id, p1 |-> p1, p2 |-> p2,
                                       height |-> p1[3], lx |-> lx, ly |-> ly, l0 |-> l0,
                                       normal |-> unit_vector_fast(<< lx, ly, 0 >>) ] ]
    /\ UNCHANGED << segs, table, cvars, evars, yvars, zvars >>

\* The direction is checked and stored.
ctor_direction ==
    /\ ctor.pc = "direction"
    /\ IF direction_rejected(ctor.direction)
       THEN ctor' = [ ctor EXCEPT !.pc = "raised", !.error = "ConfigError" ]
       ELSE ctor' = [ ctor EXCEPT
                        !.pc = "built",
                        !.self = [ id |-> @.id, p1 |-> @.p1, p2 |-> @.p2,
                                   height |-> @.height, lx |-> @.lx, ly |-> @.ly,
                                   l0 |-> @.l0, normal |-> @.normal,
                                   direction |-> ctor.direction ] ]
    /\ UNCHANGED << segs, table, cvars, evars, yvars, zvars >>

\* The most segments kept at a time.
MaxSegs == 2

\* __init__ returns: the caller has the segment.
ctor_return ==
    /\ ctor.pc = "built"
    /\ segs' = IF Cardinality(segs) < MaxSegs THEN segs \cup { ctor.self } ELSE { ctor.self }
    /\ ctor' = [ pc |-> "idle", error |-> "none", last |-> ctor.self.id ]
    /\ UNCHANGED << table, cvars, evars, yvars, zvars >>

\* __init__ raises: the caller has the error and no segment.
ctor_raise ==
    /\ ctor.pc = "raised"
    /\ ctor' = [ pc |-> "idle", error |-> ctor.error, last |-> ctor.self.id ]
    /\ UNCHANGED << segs, table, cvars, evars, yvars, zvars >>

\* No shot is being resolved or evolved: the balls are at rest.
sInit ==
    /\ balls = [ b \in BallIds |-> parked(stationary) ]
    /\ params = [ b \in BallIds |-> UnitBall ]
    /\ pre = balls
    /\ call = Idle
    /\ loc = NoLoc
    /\ phase = [ b \in BallIds |-> stationary ]
    /\ epc = "off"
    /\ cands = {}
    /\ sel = NoEvent
    /\ cue_pending = FALSE
    /\ nevents = 0
    /\ limit = NONE
    /\ truncated = FALSE

gInit == xInit /\ sInit

gNext ==
    \/ \E id \in SegIds, pp \in EndPoints, d \in Directions : ctor_call(id, pp[1], pp[2], d)
    \/ \E id \in SegIds, pp \in EndPoints : ctor_call(id, pp[1], pp[2], direction_default)
    \/ ctor_heights
    \/ ctor_direction
    \/ ctor_return
    \/ ctor_raise

SpecSegment == gInit /\ [][gNext]_vars

\* C12: a construction from end points of different heights ends with the
\* height error and adds no segment, so every segment that exists has one
\* height, that of both its end points.
C12_HeightsAgree ==
    [][ /\ \A g \in segs' : g.height = g.p1[3] /\ g.height = g.p2[3]
        /\ (ctor.pc = "heights" /\ ctor.self.p1[3] # ctor.self.p2[3]) =>
               ctor'.pc = "raised" /\ ctor'.error = "ValueError"
        /\ ctor.pc = "raised" => segs' = segs /\ ctor'.error = ctor.error ]_vars

\* C12 witness: a construction has just failed on the heights, and the
\* segments made before are still there.
C12_Witness ==
    /\ ctor.pc = "idle" /\ ctor.error = "ValueError"
    /\ segs # {}

\* C13 as stated: a construction with a direction other than 0, 1, 2 fails
\* with the configuration error, and every segment has a direction in 0, 1, 2.
C13_ConfigErrorAlways ==
    /\ \A g \in segs : g.direction \in { 0, 1, 2 }
    /\ (ctor.pc \in { "raised", "built" } /\ ctor.direction \notin { 0, 1, 2 }) =>
           ctor.pc = "raised" /\ ctor.error = "ConfigError"

\* C13: a construction with a direction other than 0, 1, 2 fails: with the
\* configuration error if the end points agree in height, with the height
\* error, which comes first, if they do not; every segment has a direction in
\* 0, 1, 2, and a construction that passes none gets 2.
C13_DirectionChecked ==
    /\ \A g \in segs : g.direction \in { 0, 1, 2 }
    /\ (ctor.pc \in { "raised", "built" } /\ ctor.direction \notin { 0, 1, 2 }) =>
           /\ ctor.pc = "raised"
           /\ ctor.error = IF ctor.self.p1[3] = ctor.self.p2[3]
                           THEN "ConfigError" ELSE "ValueError"
    /\ ctor.pc = "built" => ctor.self.direction = ctor.direction
    /\ direction_default \in { 0, 1, 2 } /\ ~direction_rejected(direction_default)

\* C13 witness: a construction with direction 3 has just failed with the
\* configuration error, and a segment with direction 2 exists.
C13_Witness ==
    /\ ctor.pc = "raised" /\ ctor.direction = 3 /\ ctor.error = "ConfigError"
    /\ \E g \in segs : g.direction = 2

(***************************************************************************)
(* The cushion segments of a table (objects/table.py)                      *)
(***************************************************************************)
\* A slip: the id of the entry above was left in the second entry.
PocketLinearSlip ==
    << << "3", "3_edge", 1 >>, << "6", "3_edge", 1 >>, << "15", "15_edge", 0 >>,
       << "12", "12_edge", 0 >>, << "18", "18_edge", 1 >>, << "9", "9_edge", 0 >>,
       << "5", "5_edge", 0 >>, << "4", "4_edge", 1 >>, << "13", "13_edge", 0 >>,
       << "14", "14_edge", 1 >>, << "1", "1_edge", 1 >>, << "2", "2_edge", 0 >>,
       << "8", "8_edge", 0 >>, << "7", "7_edge", 1 >>, << "11", "11_edge", 1 >>,
       << "10", "10_edge", 0 >>, << "16", "16_edge", 0 >>, << "17", "17_edge", 1 >> >>

\* PocketTable.get_cushion_segments, "linear": << key, id, direction >> in the
\* order of the dict display.
PocketLinear ==
    << << "3", "3_edge", 1 >>, << "6", "6_edge", 1 >>, << "15", "15_edge", 0 >>,
       << "12", "12_edge", 0 >>, << "18", "18_edge", 1 >>, << "9", "9_edge", 0 >>,
       << "5", "5_edge", 0 >>, << "4", "4_edge", 1 >>, << "13", "13_edge", 0 >>,
       << "14", "14_edge", 1 >>, << "1", "1_edge", 1 >>, << "2", "2_edge", 0 >>,
       << "8", "8_edge", 0 >>, << "7", "7_edge", 1 >>, << "11", "11_edge", 1 >>,
       << "10", "10_edge", 0 >>, << "16", "16_edge", 0 >>, << "17", "17_edge", 1 >> >>

\* PocketTable.get_cushion_segments, "circular": << key, id >>.
PocketCircular ==
    << << "1t", "1t" >>, << "2t", "2t" >>, << "4t", "4t" >>,
       << "5t", "5t" >>, << "7t", "7t" >>, << "8t", "8t" >>,
       << "10t", "10t" >>, << "11t", "11t" >>, << "13t", "13t" >>,
       << "14t", "14t" >>, << "16t", "16t" >>, << "17t", "17t" >> >>

\* BilliardTable.get_cushion_segments, "linear"; its "circular" dict is empty.
BilliardLinear ==
    << << "3", "3_edge", 1 >>, << "12", "12_edge", 0 >>, << "9", "9_edge", 0 >>,
       << "18", "18_edge", 1 >> >>

BilliardCircular == << >>

\* The cushion heights tables are built with.
CushionHeights == { SCALE \div 2, SCALE, 2 * SCALE }

\* LinearCushionSegment(cushion_id, p1, p2, direction) as a value: the segment
\* or the error it is left with.
new_linear(cushion_id, p1, p2, direction) ==
    LET dx == p2[1] - p1[1]
        dy == p2[2] - p1[2]
        lx == IF dx = 0 THEN SCALE ELSE -FDiv(dy, dx)
        ly == IF dx = 0 THEN 0 ELSE SCALE
        l0 == IF dx = 0 THEN -p1[1] ELSE Mul(FDiv(dy, dx), p1[1]) - p1[2]
    IN  IF heights_differ(p1[3], p2[3])
        THEN [ error |-> "ValueError" ]
        ELSE IF direction_rejected(direction)
        THEN [ error |-> "ConfigError" ]
        ELSE [ error |-> "none", id |-> cushion_id, p1 |-> p1, p2 |-> p2,
               height |-> p1[3], lx |-> lx, ly |-> ly, l0 |-> l0,
               normal |-> unit_vector_fast(<< lx, ly, 0 >>), direction |-> direction ]

\* CircularCushionSegment(cushion_id, center, radius)
new_circular(cushion_id, center, radius) ==
    [ id |-> cushion_id, center |-> center, radius |-> radius,
      height |-> center[3], a |-> center[1], b |-> center[2] ]

\* The entries of the dict display of a table of the kind.
linear_entries(kind) == IF kind = "pocket" THEN PocketLinear ELSE BilliardLinear
circular_entries(kind) == IF kind = "pocket" THEN PocketCircular ELSE BilliardCircular

\* PocketTable(...) or BilliardTable(...) comes to get_cushion_segments, with
\* cushion height h.
table_new(kind, h) ==
    /\ table.pc \in { "none", "built" }
    /\ table' = [ pc |-> "linear", kind |-> kind, h |-> h, next |-> 1,
                  linear |-> << >>, circular |-> << >> ]
    /\ UNCHANGED << segs, ctor, cvars, evars, yvars, zvars >>

\* The next entry of the "linear" dict is evaluated and stored under its key.
\* Where a segment lies has no part in its id: every segment is given the same
\* two end points at cushion height.
table_linear ==
    /\ table.pc = "linear"
    /\ table.next <= Len(linear_entries(table.kind))
    /\ LET e == linear_entries(table.kind)[table.next]
           g == new_linear(e[2], << 0, 0, table.h >>, << 0, SCALE, table.h >>, e[3])
       IN  IF g.error = "none"
           THEN table' = [ table EXCEPT !.linear = (e[1] :> g) @@ @, !.next = @ + 1 ]
           ELSE table' = [ pc |-> "none" ]
    /\ UNCHANGED << segs, ctor, cvars, evars, yvars, zvars >>

\* The "linear" dict is complete.
table_linear_done ==
    /\ table.pc = "linear"
    /\ table.next > Len(linear_entries(table.kind))
    /\ table' = [ table EXCEPT !.pc = "circular", !.next = 1 ]
    /\ UNCHANGED << segs, ctor, cvars, evars, yvars, zvars >>

\* The next entry of the "circular" dict is evaluated and stored under its key.
table_circular ==
    /\ table.pc = "circular"
    /\ table.next <= Len(circular_entries(table.kind))
    /\ LET e == circular_entries(table.kind)[table.next]
           g == new_circular(e[2], << 0, 0, table.h >>, SCALE)
       IN  table' = [ table EXCEPT !.circular = (e[1] :> g) @@ @, !.next = @ + 1 ]
    /\ UNCHANGED << segs, ctor, cvars, evars, yvars, zvars >>

\* get_cushion_segments returns: the table has its cushion_segments.
table_return ==
    /\ table.pc = "circular"
    /\ table.next > Len(circular_entries(table.kind))
    /\ table' = [ table EXCEPT !.pc = "built" ]
    /\ UNCHANGED << segs, ctor, cvars, evars, yvars, zvars >>

tInit == gInit

tNext ==
    \/ \E kind \in { "pocket", "billiard" }, h \in CushionHeights : table_new(kind, h)
    \/ table_linear
    \/ table_linear_done
    \/ table_circular
    \/ table_return

SpecTable == tInit /\ [][tNext]_vars

\* C14: in a table that is built, every linear segment stored under key k has
\* the id k_edge and every circular one the id k, no entry of either dict
\* display is lost to a repeated key, and so no two segments of a category
\* share an id.
C14_UniqueIds ==
    table.pc = "built" =>
        /\ \A k \in DOMAIN table.linear : table.linear[k].id = k \o "_edge"
        /\ \A k \in DOMAIN table.circular : table.circular[k].id = k
        /\ \A j, k \in DOMAIN table.linear :
              table.linear[j].id = table.linear[k].id => j = k
        /\ \A j, k \in DOMAIN table.circular :
              table.circular[j].id = table.circular[k].id => j = k
        /\ Cardinality(DOMAIN table.linear) = Len(linear_entries(table.kind))
        /\ Cardinality(DOMAIN table.circular) = Len(circular_entries(table.kind))

\* C14 witness: a pocket table is built, with its eighteen linear and twelve
\* circular segments.
C14_Witness ==
    /\ table.pc = "built" /\ table.kind = "pocket"
    /\ Cardinality(DOMAIN table.linear) > 4
    /\ Cardinality(DOMAIN table.circular) > 4

(***************************************************************************)
(* Workers resolving concurrently, each on its own System                  *)
(***************************************************************************)
Workers == { "w1", "w2" }

\* What the resolver's module holds at module level.
Module == [ z_loc |-> z_loc, INF |-> INF, sliding |-> sliding ]

\* Every worker resolves on one and the same System.
shared_system(w) == "w1"

\* The System a worker was handed: its own.
own_system(w) == w

\* The cue ball is driven into ball "1", which rests or spins in place.
Drives ==
    { << << 0, 2 * SCALE, SCALE >>, Vec(0, 2, 0), Vec(0, 0, 0) >>,
      << << 0, 2 * SCALE, SCALE >>, Vec(1, 2, 0), Vec(1, 0, 3) >>,
      << << 2 * SCALE, 0, SCALE >>, Vec(2, 0, 0), Vec(0, 0, 0) >> }

worker_system(d, m1) ==
    [ b \in BallIds |->
        CASE b = "cue" -> BallState(<< << 0, 0, SCALE >>, d[2], d[3] >>, sliding)
          [] b = "1" -> BallState(<< d[1], m1[1], m1[2] >>, m1[3])
          [] OTHER -> BallState(<< << 5 * SCALE, 5 * SCALE, SCALE >>,
                                   Vec(0, 0, 0), Vec(0, 0, 0) >>, stationary) ]

NoThread == [ pc |-> "idle", overlapped |-> FALSE ]

\* The other worker is inside its call to solve.
overlaps(w) == \E o \in Workers \ { w } : conc.th[o].pc \notin { "idle", "done" }

\* solve, lines 47-48: the arrays handed to _resolve_ball_ball are copies of
\* the two balls' arrays.
worker_copy(w) ==
    /\ conc.pc = "run"
    /\ conc.th[w].pc = "idle"
    /\ conc' = [ conc EXCEPT !.th[w] =
                   [ pc |-> "copied",
                     rvw1 |-> conc.system[own_system(w)]["cue"].rvw,
                     rvw2 |-> conc.system[own_system(w)]["1"].rvw,
                     overlapped |-> overlaps(w) ] ]
    /\ UNCHANGED << segs, ctor, table, shots, cvars, evars, zvars >>

\* _resolve_ball_ball, lines 32-35: collide_balls runs on copies of the rows
\* of its two arrays, reading z_loc and INF of the module.
worker_collide(w) ==
    /\ conc.pc = "run"
    /\ conc.th[w].pc = "copied"
    /\ conc.module.z_loc = z_loc /\ conc.module.INF = INF
    /\ LET t == conc.th[w]
           ps == conc.params[w]
           l == collide_run(
                    collide_setup(
                        t.rvw1[1], t.rvw1[2], t.rvw1[3],
                        t.rvw2[1], t.rvw2[2], t.rvw2[3],
                        ps["cue"].R, ps["cue"].m, ps["cue"].u_s, ps["1"].u_s,
                        TDiv(ps["cue"].u_b + ps["1"].u_b, 2),
                        TDiv(ps["cue"].e_b + ps["1"].e_b, 2),
                        NONE, NSteps),
                    MaxIters)
       IN  conc' = [ conc EXCEPT !.th[w] =
                       [ t EXCEPT !.pc = "collided",
                                  !.overlapped = @ \/ overlaps(w) ] @@
                       [ res |-> collide_result(l) ] ]
    /\ UNCHANGED << segs, ctor, table, shots, cvars, evars, zvars >>

\* _resolve_ball_ball, lines 37-40: the result is written into the two arrays
\* it was given.
worker_write(w) ==
    /\ conc.pc = "run"
    /\ conc.th[w].pc = "collided"
    /\ LET t == conc.th[w]
       IN  conc' = [ conc EXCEPT !.th[w] =
                       [ t EXCEPT !.pc = "written",
                                  !.rvw1 = resolve_write(t.rvw1, t.res.v_i, t.res.w_i),
                                  !.rvw2 = resolve_write(t.rvw2, t.res.v_j, t.res.w_j),
                                  !.overlapped = @ \/ overlaps(w) ] ]
    /\ UNCHANGED << segs, ctor, table, shots, cvars, evars, zvars >>

\* solve, lines 58-61: the two balls get new states, sliding, and are returned.
worker_store(w) ==
    /\ conc.pc = "run"
    /\ conc.th[w].pc = "written"
    /\ LET t == conc.th[w]
           y == own_system(w)
       IN  conc' = [ conc EXCEPT
                       !.system[y]["cue"] = BallState(t.rvw1, conc.module.sliding),
                       !.system[y]["1"] = BallState(t.rvw2, conc.module.sliding),
                       !.th[w] = [ pc |-> "done",
                                   overlapped |-> t.overlapped \/ overlaps(w) ] ]
    /\ UNCHANGED << segs, ctor, table, shots, cvars, evars, zvars >>

\* Each worker is handed a System of its own; the balls of a System are of
\* one make.
wInit ==
    /\ \E d1 \in Drives, d2 \in Drives,
          m1 \in { << Vec(0, 0, 0), Vec(0, 0, 0), stationary >>,
                   << Vec(0, 0, 0), Vec(0, 0, 2), spinning >> },
          p1 \in { UnitBall, GrippyBall }, p2 \in { UnitBall, GrippyBall } :
          conc = [ pc |-> "run",
                   module |-> Module,
                   start |-> [ w \in Workers |->
                                 IF w = "w1" THEN worker_system(d1, m1)
                                 ELSE worker_system(d2, m1) ],
                   system |-> [ w \in Workers |->
                                  IF w = "w1" THEN worker_system(d1, m1)
                                  ELSE worker_system(d2, m1) ],
                   params |-> [ w \in Workers |->
                                  [ b \in BallIds |-> IF w = "w1" THEN p1 ELSE p2 ] ],
                   th |-> [ w \in Workers |-> NoThread ] ]
    /\ shots = NoShots
    /\ gNone
    /\ zNone
    /\ sInit

wNext ==
    \E w \in Workers :
        \/ worker_copy(w)
        \/ worker_collide(w)
        \/ worker_write(w)
        \/ worker_store(w)

SpecWorkers == wInit /\ [][wNext]_vars

\* C17: two resolutions running concurrently on distinct Systems do not
\* affect each other: whatever the interleaving, a worker that has returned
\* left its System as solve alone would have left it, a worker that has not
\* yet stored its result still finds its System as it was handed over, and
\* the module-level values are what they were.
C17_Isolated ==
    conc.pc = "run" =>
        /\ conc.module = Module
        /\ \A w \in Workers :
              conc.system[w] =
                  IF conc.th[w].pc = "done"
                  THEN solve_result(conc.start[w], conc.params[w], "cue", "1")
                  ELSE conc.start[w]

\* Both workers have returned, their calls overlapped, they were handed
\* different Systems, and each has changed its own.
C17_Witness ==
    /\ conc.pc = "run"
    /\ \A w \in Workers :
          /\ conc.th[w].pc = "done"
          /\ conc.th[w].overlapped
          /\ conc.system[w] # conc.start[w]
    /\ conc.start["w1"] # conc.start["w2"]
    /\ conc.system["w1"] # conc.system["w2"]

(***************************************************************************)
(* Shot mode of the interface: how it is left                              *)
(***************************************************************************)
\* The balls of the systems shown by the interface.
ShotBalls == { "cue", "1" }
\* The most systems the collection of shots is let grow to.
MaxShots == 2

\* A sample of a ball's history.
sample(rvw, s, t) == [ rvw |-> rvw, s |-> s, t |-> t ]

\* ball.history.is_populated()
is_populated(history) == Len(history) > 0
\* ball.history.reset()
history_reset(history) == << >>
\* ball.set(rvw, s, t)
ball_set(ball, rvw, s, t) == [ ball EXCEPT !.rvw = rvw, !.s = s, !.t = t ]

\* The sample the balls are not put back to: the last one, history[-1].
last_sample(history) == history[Len(history)]
\* ball.history.rvw[0], ball.history.s[0]
first_sample(history) == history[1]

\* The body of the loop without its last statement: the history is kept.
exit_reset_ball_keep(ball) ==
    IF is_populated(ball.history)
    THEN ball_set(ball, first_sample(ball.history).rvw, first_sample(ball.history).s, 0)
    ELSE ball

\* exit(key='reset'), the body of the loop over the active system's balls.
exit_reset_ball(ball) ==
    LET put == IF is_populated(ball.history)
               THEN ball_set(ball, first_sample(ball.history).rvw,
                             first_sample(ball.history).s, 0)
               ELSE ball
    IN  [ put EXCEPT !.history = history_reset(@) ]

\* A copy of a system in its current state, with its balls' histories reset
\* or kept.
copy_of(system, reset_history) ==
    [ b \in DOMAIN system |->
        IF reset_history THEN [ system[b] EXCEPT !.history = history_reset(@) ]
        ELSE system[b] ]

\* shots.append_copy_of_active(state='current', reset_history, as_active)
append_copy_of_active(c, reset_history, as_active) ==
    [ c EXCEPT !.systems = Append(@, copy_of(c.systems[c.active], reset_history)),
               !.cues = Append(@, c.cues[c.active]),
               !.active = IF as_active THEN Len(c.systems) + 1 ELSE @ ]

\* The copy is appended but the finished shot stays the active one.
advance_copy_inactive(c) == append_copy_of_active(c, TRUE, FALSE)

\* exit(key='advance'), the call that makes the system of the next shot.
advance_copy(c) == append_copy_of_active(c, TRUE, TRUE)

\* The two tasks shot mode runs while it is entered.
ShotTasks == { "shot_view_task", "shot_animation_task" }

\* exit(key='reset'), the branch: the animation is cleared, the balls of the
\* active system are put back and their histories reset.
exit_reset_body(c) ==
    [ c EXCEPT
        !.animation = "cleared",
        !.systems[c.active] =
            [ b \in ShotBalls |-> exit_reset_ball(c.systems[c.active][b]) ] ]

\* exit(key='advance'), the branch: the animation is cleared, the copy is
\* appended and the cue of the system that is then active is reset.
exit_advance_body(c) ==
    LET d == advance_copy([ c EXCEPT !.animation = "cleared" ])
    IN  [ d EXCEPT !.cues[d.active] = "reset" ]

\* exit with a last branch that takes every other key: 'soft' resets too.
exit_body_else(c, key) ==
    IF key = "advance" THEN exit_advance_body(c) ELSE exit_reset_body(c)

\* exit(key), the statements before the tasks are removed.
exit_body(c, key) ==
    IF key = "advance" THEN exit_advance_body(c)
    ELSE IF key = "reset" THEN exit_reset_body(c)
    ELSE c

\* Where a shot can leave a ball: where it was, further along the cloth and
\* at rest, or in a pocket.
Outcomes == { "stay", "roll", "sink" }
outcome(ball, o) ==
    CASE o = "roll" -> [ rvw |-> << VAdd(ball.rvw[1], Vec(1, 0, 0)), Vec(0, 0, 0), Vec(0, 0, 0) >>,
                         s |-> stationary ]
      [] o = "sink" -> [ rvw |-> << Vec(9, 9, 0), Vec(0, 0, 0), Vec(0, 0, 0) >>,
                         s |-> pocketed ]
      [] OTHER -> [ rvw |-> ball.rvw, s |-> ball.s ]

\* The shot is struck and simulated, and shot mode is entered to show it:
\* every ball's history gets the sample it starts from, at time 0, and the
\* sample it ends at, and the ball is left in its end state.
shot_simulate ==
    /\ shots.mode = "aim"
    /\ \E T \in Times, os \in [ ShotBalls -> Outcomes ] :
          shots' = [ shots EXCEPT
              !.mode = "shot",
              !.last = "none",
              !.tasks = @ \cup ShotTasks,
              !.animation = "playing",
              !.cues[shots.active] = "struck",
              !.played = os,
              !.before = [ b \in ShotBalls |->
                             [ rvw |-> shots.systems[shots.active][b].rvw,
                               s |-> shots.systems[shots.active][b].s ] ],
              !.systems[shots.active] =
                  [ b \in ShotBalls |->
                      LET ball == shots.systems[shots.active][b]
                          end == outcome(ball, os[b])
                      IN  [ rvw |-> end.rvw, s |-> end.s, t |-> T,
                            history |-> ball.history \o
                                << sample(ball.rvw, ball.s, 0),
                                   sample(end.rvw, end.s, T) >> ] ] ]
    /\ UNCHANGED << segs, ctor, table, conc, cvars, evars, zvars >>

\* ShotMode.exit(key='advance')
exit_advance ==
    /\ shots.mode = "shot"
    /\ Len(shots.systems) < MaxShots
    /\ shots' = [ exit_body(shots, "advance") EXCEPT
                    !.mode = "aim", !.last = "advance", !.tasks = @ \ ShotTasks ]
    /\ UNCHANGED << segs, ctor, table, conc, cvars, evars, zvars >>

\* ShotMode.exit(key='reset')
exit_reset ==
    /\ shots.mode = "shot"
    /\ shots' = [ exit_body(shots, "reset") EXCEPT
                    !.mode = "aim", !.last = "reset", !.tasks = @ \ ShotTasks ]
    /\ UNCHANGED << segs, ctor, table, conc, cvars, evars, zvars >>

\* ShotMode.exit(key='soft'): the shot is left as it is, still playing.
exit_soft ==
    /\ shots.mode = "shot"
    /\ shots' = [ exit_body(shots, "soft") EXCEPT
                    !.mode = "away", !.last = "soft", !.tasks = @ \ ShotTasks ]
    /\ UNCHANGED << segs, ctor, table, conc, cvars, evars, zvars >>

\* ShotMode.enter: shot mode is come back to after a soft exit.
shot_enter ==
    /\ shots.mode = "away"
    /\ shots' = [ shots EXCEPT !.mode = "shot", !.last = "none",
                                !.tasks = @ \cup ShotTasks ]
    /\ UNCHANGED << segs, ctor, table, conc, cvars, evars, zvars >>

\* The layouts the first shot is played from.
Layouts ==
    { [ b \in ShotBalls |-> IF b = "cue" THEN Vec(0, 0, 1) ELSE Vec(0, 4, 1) ],
      [ b \in ShotBalls |-> IF b = "cue" THEN Vec(2, 1, 1) ELSE Vec(3, 5, 1) ] }

new_ball(r) ==
    [ rvw |-> << r, Vec(0, 0, 0), Vec(0, 0, 0) >>, s |-> stationary, t |-> 0,
      history |-> << >> ]

hInit ==
    /\ \E lay \in Layouts :
          shots = [ mode |-> "aim", last |-> "none",
                    systems |-> << [ b \in ShotBalls |-> new_ball(lay[b]) ] >>,
                    active |-> 1,
                    cues |-> << "aimed" >>,
                    tasks |-> {},
                    animation |-> "none",
                    played |-> [ b \in ShotBalls |-> "stay" ],
                    before |-> [ b \in ShotBalls |->
                                   [ rvw |-> new_ball(lay[b]).rvw, s |-> stationary ] ] ]
    /\ conc = NoConc
    /\ gNone
    /\ zNone
    /\ sInit

hNext ==
    \/ shot_simulate
    \/ exit_advance
    \/ exit_reset
    \/ exit_soft
    \/ shot_enter

SpecShot == hInit /\ [][hNext]_vars

\* The balls of the active system.
active_balls(c) == c.systems[c.active]

\* The times of a history's samples increase: it holds one shot's samples.
one_shot(history) ==
    \A i \in 1..Len(history), j \in 1..Len(history) :
        i < j => history[i].t < history[j].t

\* C18: after shot mode is left with 'advance' or 'reset', every ball of the
\* system that is then active has an empty history, and no history of any
\* system ever holds the samples of two shots.
C18_HistoryReset ==
    shots.mode # "none" =>
        /\ shots.last \in { "advance", "reset" } =>
              \A b \in ShotBalls : active_balls(shots)[b].history = << >>
        /\ \A k \in 1..Len(shots.systems), b \in ShotBalls :
              one_shot(shots.systems[k][b].history)

\* Shot mode was left with 'reset' after a shot, and earlier with 'advance':
\* the active system's histories are empty and the finished shot has its own.
C18_Witness ==
    /\ shots.mode = "aim"
    /\ shots.last = "reset"
    /\ shots.active = 2
    /\ \A b \in ShotBalls :
          /\ active_balls(shots)[b].history = << >>
          /\ is_populated(shots.systems[1][b].history)

\* C19: leaving shot mode with 'reset' puts every ball of the active system
\* whose history is populated back to the first sample of that history, at
\* time 0, and so to the rvw and the phase it had before the shot.
C19_ResetRestores ==
    [][ (shots.mode = "shot" /\ shots'.last = "reset") =>
            \A b \in ShotBalls :
                LET ball == active_balls(shots)[b]
                    after == active_balls(shots')[b]
                IN  /\ is_populated(ball.history) =>
                          /\ after.rvw = ball.history[1].rvw
                          /\ after.s = ball.history[1].s
                          /\ after.t = 0
                    /\ after.rvw = shots.before[b].rvw
                    /\ after.s = shots.before[b].s ]_vars

\* A shot that moved the cue ball and pocketed ball "1" was undone: both are
\* back where they were and ball "1" is no longer pocketed.
C19_Witness ==
    /\ shots.mode = "aim"
    /\ shots.last = "reset"
    /\ \A b \in ShotBalls :
          /\ active_balls(shots)[b].rvw = shots.before[b].rvw
          /\ active_balls(shots)[b].s = stationary
          /\ active_balls(shots)[b].t = 0
    /\ shots.played["cue"] = "roll"
    /\ shots.played["1"] = "sink"
    /\ active_balls(shots)["1"].rvw[1] # Vec(9, 9, 0)

\* C20: leaving shot mode with 'advance' appends exactly one system to the
\* collection; it is the active system in its end-of-shot state with empty
\* histories, it becomes the active system, and the systems the collection
\* held, the finished shot among them, are kept as they were.
C20_AdvanceAppends ==
    [][ (shots.mode = "shot" /\ shots'.last = "advance") =>
            /\ Len(shots'.systems) = Len(shots.systems) + 1
            /\ SubSeq(shots'.systems, 1, Len(shots.systems)) = shots.systems
            /\ shots'.active = Len(shots'.systems)
            /\ \A b \in ShotBalls :
                  /\ active_balls(shots')[b].rvw = active_balls(shots)[b].rvw
                  /\ active_balls(shots')[b].s = active_balls(shots)[b].s
                  /\ active_balls(shots')[b].history = << >> ]_vars

\* Shot mode was left with 'advance' after a shot that pocketed ball "1": the
\* new system is active with the ball pocketed, the finished shot is kept.
C20_Witness ==
    /\ shots.mode = "aim"
    /\ shots.last = "advance"
    /\ shots.active = Len(shots.systems)
    /\ shots.active > 1
    /\ shots.played["1"] = "sink"
    /\ active_balls(shots)["1"].s = pocketed
    /\ active_balls(shots)["1"].history = << >>
    /\ is_populated(shots.systems[shots.active - 1]["1"].history)
    /\ shots.systems[shots.active - 1]["1"].s = pocketed

\* C21: leaving shot mode with 'soft' removes the two tasks of shot mode and
\* nothing else: the collection of shots, the active system, every ball's
\* state and history, the cues and the animation are what they were.
C21_SoftFrame ==
    [][ (shots.mode = "shot" /\ shots'.last = "soft") =>
            /\ shots'.systems = shots.systems
            /\ shots'.active = shots.active
            /\ shots'.cues = shots.cues
            /\ shots'.animation = shots.animation
            /\ shots'.tasks = shots.tasks \ ShotTasks ]_vars

\* Shot mode was left with 'soft' after a shot: the animation still plays,
\* the balls have their histories, the cue is as struck, the tasks are gone.
C21_Witness ==
    /\ shots.mode = "away"
    /\ shots.last = "soft"
    /\ shots.animation = "playing"
    /\ shots.cues[shots.active] = "struck"
    /\ shots.tasks = {}
    /\ shots.played["cue"] = "roll"
    /\ \A b \in ShotBalls : is_populated(active_balls(shots)[b].history)

(***************************************************************************)
(* Shot mode of the interface: its keys and its tasks                      *)
(***************************************************************************)
\* ShotMode.keymap: the actions of shot mode, all of them off.
ShotActions ==
    { "aim", "move", "toggle_pause", "undo_shot", "restart_ani", "quit", "zoom",
      "rewind", "fast_forward", "cam_save", "cam_load", "show_help",
      "close_scene", "introspect" }
shot_keymap == [ a \in ShotActions |-> FALSE ]

\* The keystrokes bound whatever single_instance is.
common_bindings ==
    { << "mouse1", "zoom", TRUE >>, << "mouse1-up", "zoom", FALSE >>,
      << "v", "move", TRUE >>, << "v-up", "move", FALSE >>,
      << "r", "restart_ani", TRUE >>, << "r-up", "restart_ani", FALSE >>,
      << "arrow_left", "rewind", TRUE >>, << "arrow_left-up", "rewind", FALSE >>,
      << "arrow_right", "fast_forward", TRUE >>,
      << "arrow_right-up", "fast_forward", FALSE >>,
      << "1", "cam_save", TRUE >>, << "2", "cam_load", TRUE >>,
      << "h", "show_help", TRUE >>,
      << "i", "introspect", TRUE >>, << "i-up", "introspect", FALSE >> }

\* The keystrokes of a shot mode that is not the only thing shown.
menu_bindings ==
    { << "escape", "quit", TRUE >>, << "a", "aim", TRUE >>,
      << "z", "undo_shot", TRUE >>, << "z-up", "undo_shot", FALSE >> }

\* The keystrokes of a shot mode shown on its own.
single_bindings ==
    { << "escape", "close_scene", TRUE >>, << "escape-up", "close_scene", FALSE >> }

\* Bindings that do not look at single_instance: escape quits, a aims, z undoes.
shot_bindings_menu(single_instance) == menu_bindings \cup common_bindings

\* ShotMode.enter, the task_action calls.
shot_bindings(single_instance) ==
    (IF single_instance THEN single_bindings ELSE menu_bindings) \cup common_bindings

Keystrokes ==
    { b[1] : b \in menu_bindings \cup single_bindings \cup common_bindings } \cup { "q" }

\* ShotMode.enter(single_instance=...)
keys_enter(single_instance) ==
    /\ keys.pc = "idle"
    /\ keys' = [ pc |-> "shot",
                 single_instance |-> single_instance,
                 keymap |-> shot_keymap,
                 bound |-> shot_bindings(single_instance),
                 scene |-> "open",
                 advanced |-> FALSE,
                 undone |-> FALSE,
                 animation |-> "playing" ]
    /\ UNCHANGED << segs, ctor, table, conc, shots, handler, fn, cvars, evars >>

\* A keystroke arrives: update_key_map for each binding of it.
keystroke(k) ==
    /\ keys.pc = "shot"
    /\ \E b \in keys.bound :
          /\ b[1] = k
          /\ keys' = [ keys EXCEPT !.keymap[b[2]] = b[3] ]
    /\ UNCHANGED << segs, ctor, table, conc, shots, handler, fn, cvars, evars >>

\* ShotMode.shot_view_task, the branches that leave shot mode; the others
\* move the camera only.
shot_view_task ==
    /\ keys.pc = "shot"
    /\ \/ /\ keys.keymap["close_scene"]
          /\ keys' = [ keys EXCEPT !.pc = "stopped", !.scene = "closed" ]
       \/ /\ ~keys.keymap["close_scene"]
          /\ keys.keymap["aim"]
          /\ keys' = [ keys EXCEPT !.pc = "aim", !.advanced = TRUE ]
    /\ UNCHANGED << segs, ctor, table, conc, shots, handler, fn, cvars, evars >>

\* ShotMode.shot_animation_task
shot_animation_task ==
    /\ keys.pc = "shot"
    /\ \/ keys.keymap["restart_ani"] \/ keys.keymap["rewind"]
       \/ keys.keymap["fast_forward"] \/ keys.keymap["undo_shot"]
    /\ LET a1 == IF keys.keymap["restart_ani"] THEN "restarted" ELSE keys.animation
           a2 == IF keys.keymap["rewind"] THEN "rewound" ELSE a1
           a3 == IF keys.keymap["fast_forward"] THEN "forwarded" ELSE a2
       IN  keys' = [ keys EXCEPT
                       !.animation = a3,
                       !.pc = IF keys.keymap["undo_shot"] THEN "undone" ELSE @,
                       !.undone = keys.keymap["undo_shot"] ]
    /\ UNCHANGED << segs, ctor, table, conc, shots, handler, fn, cvars, evars >>

\* BaseMode.shared_task: quit closes the scene and changes to the menu.
shared_task ==
    /\ keys.pc = "shot"
    /\ keys.keymap["quit"]
    /\ keys' = [ keys EXCEPT !.keymap["quit"] = FALSE,
                             !.scene = "closed",
                             !.pc = "menu" ]
    /\ UNCHANGED << segs, ctor, table, conc, shots, handler, fn, cvars, evars >>

kInit ==
    /\ keys = [ pc |-> "idle" ]
    /\ handler = NoHandler
    /\ fn = NoCall
    /\ gNone
    /\ yNone
    /\ sInit

kNext ==
    \/ \E si \in BOOLEAN : keys_enter(si)
    \/ \E k \in Keystrokes : keystroke(k)
    \/ shot_view_task
    \/ shot_animation_task
    \/ shared_task

SpecKeys == kInit /\ [][kNext]_vars

\* Shot mode has been entered, and left or not.
keys_entered == keys.pc \notin { "none", "idle" }

\* C22 as stated: entered with single_instance=True, shot mode never has aim,
\* undo_shot or quit set, the shot is never advanced, undone or quit to the
\* menu, and escape sets close_scene; entered with single_instance=False,
\* escape sets quit and the scene is never closed.
C22_SceneNeverClosed ==
    [][ /\ keys_entered' =>
            IF keys'.single_instance
            THEN /\ ~keys'.keymap["aim"] /\ ~keys'.keymap["undo_shot"]
                 /\ ~keys'.keymap["quit"]
                 /\ ~keys'.advanced /\ ~keys'.undone
                 /\ keys'.pc \in { "shot", "stopped" }
            ELSE keys'.scene = "open"
        /\ (keys_entered /\ keystroke("escape")) =>
               IF keys.single_instance THEN keys'.keymap["close_scene"]
               ELSE keys'.keymap["quit"]
        /\ (keys_entered /\ keys.single_instance /\ keys.keymap["close_scene"]
                /\ shot_view_task) =>
               keys'.scene = "closed" ]_vars

\* C22: as above for single_instance=True; entered with single_instance=False,
\* escape sets quit, close_scene is never set and the interface is never
\* stopped, and the scene is closed only by the shared task on the way back to
\* the menu.
C22_KeysBySingleInstance ==
    [][ /\ keys_entered' =>
            IF keys'.single_instance
            THEN /\ ~keys'.keymap["aim"] /\ ~keys'.keymap["undo_shot"]
                 /\ ~keys'.keymap["quit"]
                 /\ ~keys'.advanced /\ ~keys'.undone
                 /\ keys'.pc \in { "shot", "stopped" }
            ELSE /\ ~keys'.keymap["close_scene"]
                 /\ keys'.pc # "stopped"
                 /\ keys'.scene = "closed" <=> keys'.pc = "menu"
        /\ (keys_entered /\ keystroke("escape")) =>
               IF keys.single_instance THEN keys'.keymap["close_scene"]
               ELSE keys'.keymap["quit"]
        /\ (keys_entered /\ keys.single_instance /\ keys.keymap["close_scene"]
                /\ shot_view_task) =>
               keys'.scene = "closed" ]_vars

\* Entered with single_instance=False, escape was pressed and the shared task
\* ran: the menu is shown and the scene is closed.
C22_Witness ==
    /\ keys_entered
    /\ ~keys.single_instance
    /\ keys.pc = "menu"
    /\ keys.scene = "closed"
    /\ ~keys.keymap["close_scene"]

(***************************************************************************)
(* Tables as dictionaries: as_dict and table_from_dict                     *)
(***************************************************************************)
\* The parameters of BilliardTable.__init__ that are numbers, and the ones
\* PocketTable.__init__ has on top of them.
BilliardKeys ==
    { "w", "l", "cushion_width", "cushion_height", "height", "lights_height" }
PocketKeys ==
    BilliardKeys \cup
    { "corner_pocket_width", "corner_pocket_angle", "corner_pocket_depth",
      "corner_pocket_radius", "corner_jaw_radius", "side_pocket_width",
      "side_pocket_angle", "side_pocket_depth", "side_pocket_radius",
      "side_jaw_radius" }
table_keys(class) == IF class = "PocketTable" THEN PocketKeys ELSE BilliardKeys

\* The defaults of constants.py, in units of 1e-7 m (angles: 1e-7 degrees).
table_defaults ==
    [ w |-> 9906000, l |-> 19812000, height |-> 7080000,
      lights_height |-> 19900000, cushion_width |-> 508000,
      cushion_height |-> 365760,
      corner_pocket_width |-> 1180000, corner_pocket_angle |-> 53000000,
      corner_pocket_depth |-> 398000, corner_pocket_radius |-> 620000,
      corner_jaw_radius |-> 209500, side_pocket_width |-> 1370000,
      side_pocket_angle |-> 71400000, side_pocket_depth |-> 43700,
      side_pocket_radius |-> 645000, side_jaw_radius |-> 79500 ]

\* The tables of the configuration that are known by name, and what each
\* sets.
Presets ==
    [ none |-> << >>,
      flat |-> [ w |-> 10000000, l |-> 20000000, side_pocket_angle |-> 0,
                 cushion_height |-> 400000 ] ]

\* `v or default`: None and 0 give the default.
init_or(v, default) == IF v = NONE \/ v = 0 THEN default ELSE v

\* PocketTable.__init__ / BilliardTable.__init__ called with keyword
\* arguments: a keyword that is no parameter is a TypeError.
table_init(class, kwargs, has_model, model_name) ==
    IF ~(DOMAIN kwargs \subseteq table_keys(class)) THEN [ error |-> "TypeError" ]
    ELSE
      LET given == [ k \in table_keys(class) |->
                       init_or(IF k \in DOMAIN kwargs THEN kwargs[k] ELSE NONE,
                               table_defaults[k]) ]
          preset == Presets[model_name]
          attrs == IF model_name # "none"
                   THEN [ k \in DOMAIN given \cup DOMAIN preset |->
                            IF k \in DOMAIN preset THEN preset[k] ELSE given[k] ]
                   ELSE given
      IN  [ error |-> "none",
            class |-> class,
            attrs |-> attrs,
            has_model |-> has_model,
            model_name |-> model_name,
            center |-> << attrs["w"] \div 2, attrs["l"] \div 2 >> ]

\* PocketTable.as_dict / BilliardTable.as_dict
as_dict(t) ==
    [ params |-> [ k \in table_keys(t.class) |-> t.attrs[k] ],
      has_model |-> t.has_model,
      model_name |-> t.model_name,
      table_type |-> IF t.class = "PocketTable" THEN "pocket" ELSE "billiard" ]

table_types == [ pocket |-> "PocketTable", billiard |-> "BilliardTable" ]

\* The dictionary is passed on whole, its table_type with it.
table_from_dict_whole(d) ==
    table_init(table_types[d.table_type],
               [ k \in DOMAIN d.params \cup { "table_type" } |->
                   IF k = "table_type" THEN d.table_type ELSE d.params[k] ],
               d.has_model, d.model_name)

\* table_from_dict(d)
table_from_dict(d) ==
    table_init(table_types[d.table_type], d.params, d.has_model, d.model_name)

\* What a caller passes for a parameter: nothing, zero, or a length.
ArgValues == { NONE, 0, 12345678 }

\* A table is built.
dict_build ==
    /\ fn.pc = "args"
    /\ fn' = [ fn EXCEPT !.pc = "built",
                         !.t = table_init(fn.class, fn.kwargs, fn.has_model, fn.model_name) ]
    /\ UNCHANGED << segs, ctor, table, conc, shots, keys, handler, cvars, evars >>

\* t.as_dict()
dict_as_dict ==
    /\ fn.pc = "built"
    /\ fn' = [ fn EXCEPT !.pc = "saved", !.d = as_dict(fn.t) ]
    /\ UNCHANGED << segs, ctor, table, conc, shots, keys, handler, cvars, evars >>

\* table_from_dict(d)
dict_from_dict ==
    /\ fn.pc = "saved"
    /\ fn' = [ fn EXCEPT !.pc = "restored", !.t2 = table_from_dict(fn.d) ]
    /\ UNCHANGED << segs, ctor, table, conc, shots, keys, handler, cvars, evars >>

\* The restored table's as_dict()
dict_again ==
    /\ fn.pc = "restored"
    /\ fn.t2.error = "none"
    /\ fn' = [ fn EXCEPT !.pc = "done", !.d2 = as_dict(fn.t2) ]
    /\ UNCHANGED << segs, ctor, table, conc, shots, keys, handler, cvars, evars >>

\* A table of either class, built with one parameter given (or none, or
\* zero) and the others left to their defaults, by name or not.
dInit ==
    /\ \E class \in { "PocketTable", "BilliardTable" }, v \in ArgValues,
          has_model \in BOOLEAN, model_name \in { "none", "flat" } :
          \E k \in table_keys(class) :
              fn = [ pc |-> "args", class |-> class,
                     kwargs |-> [ x \in { k } |-> v ],
                     has_model |-> has_model, model_name |-> model_name,
                     t |-> << >>, d |-> << >>, t2 |-> << >>, d2 |-> << >> ]
    /\ keys = NoKeys
    /\ handler = NoHandler
    /\ gNone
    /\ yNone
    /\ sInit

dNext ==
    \/ dict_build
    \/ dict_as_dict
    \/ dict_from_dict
    \/ dict_again

SpecDict == dInit /\ [][dNext]_vars

\* C23: for every PocketTable or BilliardTable t, table_from_dict(t.as_dict())
\* builds a table of the class of t whose as_dict() equals t.as_dict().
C23_RoundTrip ==
    /\ fn.pc = "restored" =>
          /\ fn.t2.error = "none"
          /\ fn.t2.class = fn.t.class
    /\ fn.pc = "done" => fn.d2 = fn.d

\* A pocket table built by name, whose side pocket angle the configuration
\* sets to zero, was saved and restored.
C23_Witness ==
    /\ fn.pc = "done"
    /\ fn.class = "PocketTable"
    /\ fn.model_name = "flat"
    /\ fn.has_model
    /\ fn.d.params["side_pocket_angle"] = 0
    /\ fn.d2 = fn.d
    /\ fn.d.table_type = "pocket"

(***************************************************************************)
(* The 9-ball break script, run twice with the same arguments              *)
(***************************************************************************)
Runs == { 1, 2 }
\* The states of the random generator, and what --seed can be given as
\* (NONE: the option is left out).
RngStates == 0..4
Seeds == { NONE, 0, 1, 2, 3 }
StrikeSpeeds == { 4, 8 }

\* np.random.seed(seed): the generator's state is a function of the seed.
seed_state(seed) == (seed + 1) % 5
\* The generator draws a number and moves on.
rng_draw(state) == (3 * state + 1) % 5
rng_next(state) == (2 * state + 3) % 5

\* `if args.seed:`: None and 0 do not seed.
seed_given(seed) == seed # NONE /\ seed # 0

\* A run starts: the generator is in the state the system put it in.
break_start(run) ==
    /\ fn.pc = "break"
    /\ fn.run[run].pc = "idle"
    /\ \E e \in RngStates :
          fn' = [ fn EXCEPT !.run[run] = [ pc |-> "started", rng |-> e,
                                           rack |-> NONE, shot |-> NONE ] ]
    /\ UNCHANGED << segs, ctor, table, conc, shots, keys, handler, cvars, evars >>

\* main, lines 13-14
break_seed(run) ==
    /\ fn.pc = "break"
    /\ fn.run[run].pc = "started"
    /\ fn' = [ fn EXCEPT !.run[run].pc = "seeded",
                         !.run[run].rng = IF seed_given(fn.seed)
                                          THEN seed_state(fn.seed) ELSE @ ]
    /\ UNCHANGED << segs, ctor, table, conc, shots, keys, handler, cvars, evars >>

\* main, lines 16-22: the rack is built, its balls separated at random.
break_rack(run) ==
    /\ fn.pc = "break"
    /\ fn.run[run].pc = "seeded"
    /\ fn' = [ fn EXCEPT !.run[run].pc = "racked",
                         !.run[run].rack = rng_draw(fn.run[run].rng),
                         !.run[run].rng = rng_next(@) ]
    /\ UNCHANGED << segs, ctor, table, conc, shots, keys, handler, cvars, evars >>

\* main, lines 25-29: the shot is aimed, struck and simulated; what comes of
\* it is a function of the rack and of the strike.
break_simulate(run) ==
    /\ fn.pc = "break"
    /\ fn.run[run].pc = "racked"
    /\ fn' = [ fn EXCEPT !.run[run].pc = "done",
                         !.run[run].shot = << fn.run[run].rack, fn.V0 >> ]
    /\ UNCHANGED << segs, ctor, table, conc, shots, keys, handler, cvars, evars >>

bInit ==
    /\ \E seed \in Seeds, V0 \in StrikeSpeeds :
          fn = [ pc |-> "break", seed |-> seed, V0 |-> V0,
                 run |-> [ r \in Runs |-> [ pc |-> "idle" ] ] ]
    /\ keys = NoKeys
    /\ handler = NoHandler
    /\ gNone
    /\ yNone
    /\ sInit

bNext ==
    \E run \in Runs :
        \/ break_start(run)
        \/ break_seed(run)
        \/ break_rack(run)
        \/ break_simulate(run)

SpecBreak == bInit /\ [][bNext]_vars

\* C24: for every seed given with --seed, 0 included, two runs of the break
\* script with the same arguments build the same rack and simulate the same
\* shot.
C24_SeedReproducible ==
    (fn.pc = "break" /\ fn.seed # NONE /\ \A r \in Runs : fn.run[r].pc = "done") =>
        /\ fn.run[1].rack = fn.run[2].rack
        /\ fn.run[1].shot = fn.run[2].shot

(***************************************************************************)
(* The two phases of collide_balls                                         *)
(***************************************************************************)
\* C25: the compression work W_c is fixed once, by the first iteration that
\* leaves the relative normal velocity v_ijy positive, as the work done so
\* far; the work target is infinite until then and (1 + e_b^2) * W_c from
\* then on; the loop goes on exactly while v_ijy < 0 or W < W_f, so it is
\* left after the first iteration that leaves v_ijy >= 0 and W >= W_f.
C25_TwoPhases ==
    [][ /\ collide_step =>
            /\ loc.v_ijy < 0 \/ loc.W < loc.W_f
            /\ IF loc.W_c # NONE
               THEN loc'.W_c = loc.W_c /\ loc'.W_f = loc.W_f
               ELSE IF loc'.v_ijy > 0
                    THEN /\ loc'.W_c = loc'.W
                         /\ loc'.W_f = Mul(SCALE + Mul(loc.e_b, loc.e_b), loc'.W_c)
                    ELSE loc'.W_c = NONE /\ loc'.W_f = INF
        /\ collide_return =>
            /\ loc.v_ijy >= 0
            /\ loc.W >= loc.W_f
            /\ loc.W_c # NONE
        /\ (call.pc = "loop" /\ loc.v_ijy >= 0 /\ loc.W >= loc.W_f) => ~collide_step
      ]_vars

\* A resolution has returned after a compression phase and a restitution
\* phase of its own: more work was done than the compression took.
C25_Witness ==
    /\ call.pc = "done"
    /\ loc.W_c # NONE
    /\ loc.W_c > 0
    /\ loc.W_f > loc.W_c
    /\ loc.W > loc.W_c
    /\ loc.W >= loc.W_f
    /\ loc.v_ijy > 0

(***************************************************************************)
(* The order of the steps of the evolve loop                               *)
(***************************************************************************)
\* C26: in the evolve loop a detection pass starts only at the top of the
\* loop, with no resolver under way; the balls are advanced only after a
\* detection pass; a resolver runs only after the balls were advanced, on the
\* event that was selected; and the top of the loop is come back to only from
\* a resolver that has finished.
C26_DetectAdvanceResolve ==
    [][ /\ (epc' = "advance" /\ epc # "advance") => (epc = "loop" /\ call.pc = "idle")
        /\ (epc' = "resolve" /\ epc # "resolve") => epc = "advance"
        /\ (epc' = "resolving" /\ epc # "resolving") => epc = "resolve"
        /\ (epc' = "loop" /\ epc # "loop") =>
               \/ epc = "idle"
               \/ epc = "resolve"
               \/ epc = "resolving" /\ call.pc = "done"
        /\ (phase' # phase /\ epc # "done") => epc \in { "resolve", "resolving" }
        /\ call'.pc # "idle" => epc' = "resolving"
        /\ epc \in { "resolve", "resolving" } => sel' = sel
      ]_vars

\* The strike has been resolved, a second detection pass has selected a
\* ball-ball collision, and the balls have been advanced to it.
C26_Witness ==
    /\ epc = "resolve"
    /\ ~cue_pending
    /\ sel.kind = "ball_ball"
    /\ cands = {}
    /\ call.pc = "idle"

(***************************************************************************)
(* CircularCushionSegment.get_normal                                       *)
(***************************************************************************)
\* Where the centre of a circular segment lies, and where the ball's centre
\* is relative to it on the cloth plane; the heights either centre can have.
CenterSpots == { Vec(0, 0, 0), Vec(2, 1, 0) }
Offsets ==
    { << x * SCALE, y * SCALE, 0 >> : x \in -3..3, y \in { -4, 0, 1, 4 } }
        \ { << 0, 0, 0 >> }
Heights == { SCALE, 2 * SCALE }

\* get_normal is called with the ball's rvw.
normal_call ==
    /\ fn.pc = "args"
    /\ fn' = [ fn EXCEPT !.pc = "called" ]
    /\ UNCHANGED << segs, ctor, table, conc, shots, keys, handler, cvars, evars >>

\* line 686: the unit vector from the segment's centre to the ball's.
normal_unit ==
    /\ fn.pc = "called"
    /\ fn' = [ fn EXCEPT !.pc = "unit",
                         !.normal = unit_vector_fast(VSub(fn.rvw[1], fn.center)) ]
    /\ UNCHANGED << segs, ctor, table, conc, shots, keys, handler, cvars, evars >>

\* lines 687-688: the z-component is removed and the vector returned.
normal_return ==
    /\ fn.pc = "unit"
    /\ fn' = [ fn EXCEPT !.pc = "returned",
                         !.normal = << @[1], @[2], 0 >> ]
    /\ UNCHANGED << segs, ctor, table, conc, shots, keys, handler, cvars, evars >>

vInit ==
    /\ \E c \in CenterSpots, o \in Offsets, hc \in Heights, hb \in Heights :
          fn = [ pc |-> "args",
                 center |-> << c[1], c[2], hc >>,
                 rvw |-> << << c[1] + o[1], c[2] + o[2], hb >>, Vec(0, 0, 0), Vec(0, 0, 0) >>,
                 normal |-> << >> ]
    /\ keys = NoKeys
    /\ handler = NoHandler
    /\ gNone
    /\ yNone
    /\ sInit

vNext ==
    \/ normal_call
    \/ normal_unit
    \/ normal_return

SpecNormal == vInit /\ [][vNext]_vars

\* C27: the vector get_normal returns has no z-component, has unit length (to
\* within one hundredth) and points from the segment's centre toward the
\* ball, whatever the heights of the two centres.
C27_UnitNormal ==
    fn.pc = "returned" =>
        /\ fn.normal[3] = 0
        /\ Abs(Norm(fn.normal) - SCALE) * 100 <= SCALE
        /\ Dot(fn.normal, VSub(fn.rvw[1], fn.center)) > 0

\* ---------------------------------------------------------------------------
\* Ruleset: the counters of a game and the respotting of a ball between shots
\* (game/ruleset/datatypes.py).

\* The player_names argument of Ruleset.__init__: None, or a list of names.
PlayerArgs ==
    { [ given |-> FALSE ],
      [ given |-> TRUE, names |-> << "A" >> ],
      [ given |-> TRUE, names |-> << "A", "B", "C" >> ] }

\* Player.create_players(names), lines 213-218: the players in the order of
\* their names, indexed from 0, none with ball in hand.
create_players(player_names) ==
    LET names == IF player_names.given THEN player_names.names
                 ELSE << "Player 1", "Player 2" >>
    IN  [ i \in 0 .. Len(names) - 1 |->
            [ name |-> names[i + 1], ball_in_hand |-> "None" ] ]

\* len(self.players)
n_players(r) == Cardinality(DOMAIN r.players)

\* Ruleset.__init__, lines 62-91.
ruleset_init(player_names) ==
    [ pc |-> "ruleset",
      players |-> create_players(player_names),
      points |-> [ p \in DOMAIN create_players(player_names) |-> 0 ],
      game_over |-> FALSE,
      shot_number |-> 0,
      turn_number |-> 0,
      active_idx |-> 0,
      ball_in_hand |-> "None",
      ball_call |-> "dummy",
      pocket_call |-> "dummy",
      shot_constraints |-> "none",
      shot_info |-> [ set |-> FALSE ],
      winner |-> "unset",
      log |-> 0,
      processed |-> FALSE,
      last |-> "init" ]

\* Ruleset.player_order(), lines 93-95: the players it yields, in order.
player_order(r) ==
    [ i \in 1 .. n_players(r) |-> (r.turn_number + (i - 1)) % n_players(r) ]

\* Where each ball lies when the shot is over.
RestSpots ==
    [ b \in BallIds |->
        CASE b = "cue" -> << 0, 0, SCALE >>
          [] b = "1" -> << 0, 2 * SCALE, SCALE >>
          [] OTHER -> << 2 * SCALE, 0, SCALE >> ]

\* Ruleset.process_shot(shot), lines 119-136, up to its call of respot_balls:
\* what legality, is_turn_over, award_points and award_ball_in_hand return
\* are the arguments.
process_shot(r, is_legal, is_turn_over, awarded, in_hand) ==
    [ r EXCEPT !.shot_info = [ set |-> TRUE, shooter |-> r.active_idx,
                               is_legal |-> is_legal,
                               is_turn_over |-> is_turn_over ],
               !.points[r.active_idx] = @ + awarded,
               !.log = IF is_legal THEN @ ELSE @ + 1,
               !.ball_in_hand = in_hand,
               !.processed = TRUE,
               !.last = "process_shot" ]

\* An advance that counts a turn with every shot.
advance_counters_each(r) ==
    [ r EXCEPT !.turn_number = @ + 1, !.shot_number = @ + 1 ]

\* advance, lines 145-147.
advance_counters(r) ==
    [ r EXCEPT !.turn_number = IF r.shot_info.is_turn_over THEN @ + 1 ELSE @,
               !.shot_number = @ + 1 ]

\* An advance that leaves the ball in the hand of the player who had it.
clear_ball_in_hand_kept(r) == r

\* advance, line 149: self.active_player.ball_in_hand = None.
clear_ball_in_hand(r) ==
    [ r EXCEPT !.players[r.active_idx].ball_in_hand = "None" ]

\* A set_next_player that passes the turn on with every shot.
set_next_player_each(r) ==
    [ r EXCEPT !.active_idx = (@ + 1) % n_players(r) ]

\* set_next_player, lines 106-107.
set_next_player(r) ==
    [ r EXCEPT !.active_idx = r.turn_number % n_players(r) ]

\* advance, lines 152-153.
hand_ball(r) ==
    IF ~r.shot_info.is_legal
      THEN [ r EXCEPT !.players[r.active_idx].ball_in_hand = r.ball_in_hand ]
      ELSE r

\* advance, lines 155-157; what next_shot_constraints returns is the argument.
reset_calls(r, constraints) ==
    [ r EXCEPT !.ball_call = "dummy",
               !.pocket_call = "dummy",
               !.shot_constraints = constraints ]

\* An advance that counts the shot that ended the game.
advance_game_over_counted(r, winner) ==
    [ r EXCEPT !.game_over = TRUE, !.winner = winner, !.log = @ + 1,
               !.shot_number = @ + 1 ]

\* advance, lines 139-143: the game is over; what decide_winner decides is
\* the argument.
advance_game_over(r, winner) ==
    [ r EXCEPT !.game_over = TRUE, !.winner = winner, !.log = @ + 1 ]

\* Ruleset.advance(shot), lines 138-157; self.shot_info is an attribute only
\* once process_shot has run.
advance(r, is_game_over, winner, constraints) ==
    IF is_game_over
      THEN [ advance_game_over(r, winner) EXCEPT !.last = "game_over" ]
      ELSE IF ~r.shot_info.set
        THEN [ r EXCEPT !.last = "AttributeError" ]
        ELSE [ reset_calls(
                   hand_ball(set_next_player(clear_ball_in_hand(advance_counters(r)))),
                   constraints)
                 EXCEPT !.processed = FALSE, !.last = "advance" ]

ShotConstraints == { "none", "anywhere" }

ruleset_process_shot(is_legal, is_turn_over, awarded, in_hand) ==
    /\ fn.pc = "ruleset"
    /\ ~fn.game_over
    /\ ~fn.processed
    /\ fn' = process_shot(fn, is_legal, is_turn_over, awarded, in_hand)
    /\ UNCHANGED << segs, ctor, table, conc, shots, keys, handler, cvars, evars >>

ruleset_advance(is_game_over, winner, constraints) ==
    /\ fn.pc = "ruleset"
    /\ ~fn.game_over
    /\ fn.shot_number < MaxShots
    /\ winner \in DOMAIN fn.players
    /\ fn' = advance(fn, is_game_over, winner, constraints)
    /\ UNCHANGED << segs, ctor, table, conc, shots, keys, handler, cvars, evars >>

\* The interface records the ball and the pocket the player calls.
ruleset_call(ball, pocket) ==
    /\ fn.pc = "ruleset"
    /\ ~fn.game_over
    /\ fn.ball_call = "dummy"
    /\ fn' = [ fn EXCEPT !.ball_call = ball, !.pocket_call = pocket, !.last = "call" ]
    /\ UNCHANGED << segs, ctor, table, conc, shots, keys, handler, cvars, evars >>

\* A shot is over; each ball is where and how the shot left it.
rInit ==
    /\ \E mc \in Motions, m1 \in Motions :
          balls = [ b \in BallIds |->
                      CASE b = "cue" -> BallState(<< RestSpots[b], mc[1], mc[2] >>, mc[3])
                        [] b = "1" -> BallState(<< RestSpots[b], m1[1], m1[2] >>, m1[3])
                        [] OTHER -> BallState(<< RestSpots[b], Vec(0, 0, 0), Vec(0, 0, 0) >>, pocketed) ]
    /\ params = [ b \in BallIds |-> UnitBall ]
    /\ pre = balls
    /\ call = Idle
    /\ loc = NoLoc
    /\ phase = [ b \in BallIds |-> balls[b].s ]
    /\ epc = "done"
    /\ cands = {}
    /\ sel = NoEvent
    /\ cue_pending = FALSE
    /\ nevents = 0
    /\ limit = NONE
    /\ truncated = FALSE
    /\ fn = ruleset_init([ given |-> FALSE ])
    /\ keys = NoKeys
    /\ handler = NoHandler
    /\ gNone
    /\ yNone

rNext ==
    \/ \E a \in { 0, 1 }, t \in BOOLEAN : ruleset_process_shot(TRUE, t, a, "None")
    \/ \E g \in BOOLEAN : ruleset_advance(g, 0, "none")
    \/ \E b \in BallIds, xyz \in Spots : respot(b, xyz)

SpecRespot == rInit /\ [][rNext]_vars

\* C28: a step of respot(ball_id, (x, y, z)) puts the named ball at (x, y, z)
\* and makes it stationary, whatever its phase was; its velocity and angular
\* velocity, every other ball and the counters of the ruleset are as before.
C28_RespotFrame ==
    [][ \A b \in BallIds, xyz \in Spots :
          respot(b, xyz) =>
              /\ balls'[b].rvw[1] = xyz
              /\ balls'[b].s = stationary
              /\ balls'[b].rvw[2] = balls[b].rvw[2]
              /\ balls'[b].rvw[3] = balls[b].rvw[3]
              /\ \A o \in BallIds \ { b } : balls'[o] = balls[o]
              /\ fn' = fn ]_vars

\* A ball in motion and the pocketed ball have both been respotted in a game
\* whose counters have moved: the first kept its velocity and spin.
C28_Witness ==
    /\ fn.pc = "ruleset"
    /\ fn.shot_number > 0
    /\ fn.points[0] > 0
    /\ pre["2"].s = pocketed
    /\ balls["2"].s = stationary
    /\ balls["2"].rvw[1] \in Spots
    /\ pre["1"].s = sliding
    /\ balls["1"].s = stationary
    /\ balls["1"].rvw[1] \in Spots
    /\ balls["1"].rvw[2] = Vec(1, 2, 0)
    /\ balls["1"].rvw[3] = Vec(1, 0, 3)
    /\ balls["cue"] = pre["cue"]

\* ---------------------------------------------------------------------------
\* Ruleset: a game from its first shot, shot after shot
\* (game/ruleset/datatypes.py).

InHand == { "None", "cue" }

uInit ==
    /\ \E player_names \in PlayerArgs : fn = ruleset_init(player_names)
    /\ keys = NoKeys
    /\ handler = NoHandler
    /\ gNone
    /\ yNone
    /\ sInit

uNext ==
    \/ \E is_legal \in BOOLEAN, is_turn_over \in BOOLEAN, awarded \in { 0, 1 },
          in_hand \in InHand :
          ruleset_process_shot(is_legal, is_turn_over, awarded, in_hand)
    \/ \E is_game_over \in BOOLEAN, winner \in 0 .. 2, constraints \in ShotConstraints :
          ruleset_advance(is_game_over, winner, constraints)
    \/ \E ball \in { "8" }, pocket \in { "lc", "rc" } : ruleset_call(ball, pocket)

SpecRuleset == uInit /\ [][uNext]_vars

\* C33: active_idx is turn_number modulo the number of players, an index of
\* a player, and player_order yields every player once, the active player
\* first.
C33_ActiveByTurn ==
    fn.pc = "ruleset" =>
        /\ fn.active_idx = fn.turn_number % n_players(fn)
        /\ fn.active_idx \in DOMAIN fn.players
        /\ Len(player_order(fn)) = n_players(fn)
        /\ \A p \in DOMAIN fn.players :
              Cardinality({ i \in 1 .. Len(player_order(fn)) : player_order(fn)[i] = p }) = 1
        /\ player_order(fn)[1] = fn.active_idx

\* Three players, the third active after two shots that each ended the turn.
C33_Witness ==
    /\ fn.pc = "ruleset"
    /\ n_players(fn) = 3
    /\ fn.last = "advance"
    /\ fn.shot_number = 2
    /\ fn.turn_number = 2
    /\ fn.active_idx = 2
    /\ player_order(fn) = << 2, 0, 1 >>

\* C34: an advance that does not end the game adds one to shot_number, and
\* one to turn_number when the processed shot ended the turn and nothing
\* otherwise; turn_number never exceeds shot_number, and the active player
\* changes only in an advance after a shot that ended the turn.
C34_Counters ==
    [][ /\ fn'.last = "advance" =>
              /\ fn'.shot_number = fn.shot_number + 1
              /\ fn'.turn_number =
                    fn.turn_number + (IF fn.shot_info.is_turn_over THEN 1 ELSE 0)
        /\ fn'.turn_number <= fn'.shot_number
        /\ fn'.active_idx # fn.active_idx =>
              (fn'.last = "advance" /\ fn.shot_info.is_turn_over) ]_vars

\* Two shots have been advanced over, of which one ended the turn.
C34_Witness ==
    /\ fn.pc = "ruleset"
    /\ fn.last = "advance"
    /\ fn.shot_number = 2
    /\ fn.turn_number = 1
    /\ fn.active_idx = 1
    /\ ~fn.shot_info.is_turn_over

\* C35: an advance that finds the game over sets game_over, records the
\* winner and logs a message; turn_number, shot_number, active_idx, every
\* player's ball_in_hand, ball_call, pocket_call and shot_constraints are as
\* they were.
C35_GameOverFrame ==
    [][ fn'.last = "game_over" =>
          /\ fn'.game_over
          /\ fn'.winner \in DOMAIN fn.players
          /\ fn'.log = fn.log + 1
          /\ fn'.turn_number = fn.turn_number
          /\ fn'.shot_number = fn.shot_number
          /\ fn'.active_idx = fn.active_idx
          /\ fn'.players = fn.players
          /\ fn'.ball_call = fn.ball_call
          /\ fn'.pocket_call = fn.pocket_call
          /\ fn'.shot_constraints = fn.shot_constraints ]_vars

\* The game ended on a called shot of the second player, who held ball in
\* hand, after a turn and a shot had been counted.
C35_Witness ==
    /\ fn.pc = "ruleset"
    /\ fn.last = "game_over"
    /\ fn.game_over
    /\ fn.winner = 1
    /\ fn.shot_number = 1
    /\ fn.turn_number = 1
    /\ fn.active_idx = 1
    /\ fn.players[1].ball_in_hand = "cue"
    /\ fn.ball_call = "8"
    /\ fn.pocket_call = "lc"
    /\ fn.shot_constraints = "anywhere"

\* C36: after an advance that does not end the game the active player holds
\* what the last process_shot awarded if that shot was illegal and nothing
\* if it was legal, and no other player holds anything.
C36_BallInHand ==
    (fn.pc = "ruleset" /\ fn.last = "advance") =>
        /\ fn.players[fn.active_idx].ball_in_hand =
              (IF fn.shot_info.is_legal THEN "None" ELSE fn.ball_in_hand)
        /\ \A p \in DOMAIN fn.players \ { fn.active_idx } :
              fn.players[p].ball_in_hand = "None"

\* Of three players the second has played an illegal shot that ended the
\* turn: the third, now active, holds the ball that was awarded, and the
\* others hold nothing.
C36_Witness ==
    /\ fn.pc = "ruleset"
    /\ fn.last = "advance"
    /\ n_players(fn) = 3
    /\ fn.shot_number = 2
    /\ fn.active_idx = 2
    /\ fn.shot_info.shooter = 1
    /\ ~fn.shot_info.is_legal
    /\ fn.ball_in_hand = "cue"
    /\ fn.players[2].ball_in_hand = "cue"
    /\ fn.players[0].ball_in_hand = "None"
    /\ fn.players[1].ball_in_hand = "None"

\* ---------------------------------------------------------------------------
\* Handler: the modes of the interface and the change from one to another
\* (psim/ani/animate3d.py).

HandlerModes == { "menu", "aim", "view", "shot" }

\* self.modes[mode]['keymap'] as __init__ writes it, lines 23-69.
modes_keymap ==
    [ menu |-> [ exit |-> FALSE, new_game |-> FALSE ],
      aim  |-> [ fine_control |-> FALSE, quit |-> FALSE, shoot |-> FALSE,
                 view |-> FALSE, zoom |-> FALSE ],
      view |-> [ aim |-> FALSE, fine_control |-> FALSE, move |-> TRUE,
                 quit |-> FALSE, zoom |-> FALSE ],
      shot |-> [ aim |-> FALSE, fine_control |-> FALSE, move |-> FALSE,
                 toggle_pause |-> FALSE, restart_shot |-> FALSE, quit |-> FALSE,
                 zoom |-> FALSE, rewind |-> FALSE, fast_forward |-> FALSE ] ]

\* lines 71-76: the states above, stored as the defaults.
action_state_defaults ==
    [ mode \in HandlerModes |->
        [ a \in DOMAIN modes_keymap[mode] |-> modes_keymap[mode][a] ] ]

\* What task_action binds for a key that is pressed and released.
held(key, action) == { << key, action, TRUE >>, << key \o "-up", action, FALSE >> }

\* The task_action calls of each mode's enter callback:
\* << keystroke, action_name, action_state >>.
enter_bindings ==
    [ menu |-> held("escape", "exit") \cup held("n", "new_game"),
      aim  |-> { << "escape", "quit", TRUE >>, << "v", "view", TRUE >> }
                  \cup held("f", "fine_control") \cup held("mouse1", "zoom")
                  \cup held("s", "shoot"),
      view |-> { << "escape", "quit", TRUE >>, << "a", "aim", TRUE >> }
                  \cup held("mouse1", "zoom") \cup held("v", "move"),
      shot |-> { << "escape", "quit", TRUE >>, << "a", "aim", TRUE >> }
                  \cup held("mouse1", "zoom") \cup held("v", "move")
                  \cup held("r", "restart_shot") \cup held("f", "fine_control")
                  \cup held("arrow_left", "rewind")
                  \cup held("arrow_right", "fast_forward") ]

\* The add_task calls of each mode's enter callback.
enter_tasks ==
    [ menu |-> { "menu_task" },
      aim  |-> { "aim_task", "quit_task" },
      view |-> { "view_task", "quit_task" },
      shot |-> { "run_simulation", "quit_task" } ]

\* The remove_task calls of each mode's exit callback, in their order.
exit_tasks ==
    [ menu |-> << "menu_task" >>,
      aim  |-> << "aim_task", "quit_task" >>,
      view |-> << "view_task", "quit_task" >>,
      shot |-> << "shot_view_task", "shot_animation_task", "quit_task" >> ]

\* Interface.remove_task(name) for each name in turn, lines 260-262:
\* del self.tasks[name] raises KeyError for a name that is not registered,
\* and what follows in the callback is not run.
RECURSIVE remove_tasks(_, _)
remove_tasks(tasks, names) ==
    IF names = << >> THEN [ tasks |-> tasks, error |-> "none" ]
    ELSE IF Head(names) \notin tasks
           THEN [ tasks |-> tasks, error |-> "KeyError in remove_task" ]
           ELSE remove_tasks(tasks \ { Head(names) }, Tail(names))

\* Mode names that are not keys of self.modes.
UnknownModes == { "game_over" }

\* Handler.__init__: no mode, no keymap, nothing accepted; Interface.__init__,
\* line 232: no task registered.
handler_init ==
    [ pc |-> "idle",
      mode |-> "none",
      keymap |-> "none",
      keymaps |-> modes_keymap,
      accepted |-> {},
      tasks |-> {},
      error |-> "none",
      entered |-> {},
      target |-> "none",
      last |-> "none",
      exits |-> 0,
      bound_at_exit |-> FALSE,
      changed_at_exit |-> {},
      at_enter |-> << >> ]

\* update_key_map(action_name, action_state) on the dictionary km.
update_key_map(km, action_name, action_state) ==
    [ a \in DOMAIN km \cup { action_name } |->
        IF a = action_name THEN action_state ELSE km[a] ]

\* ignoreAll() that leaves the bindings of the mode in place.
ignoreAll_kept(h) == h

\* self.ignoreAll(), line 105.
ignoreAll(h) == [ h EXCEPT !.accepted = {} ]

\* reset_action_states() that leaves the states as the keystrokes set them.
reset_action_states_kept(h) == h

\* reset_action_states(), lines 220-222: self.keymap is the dictionary of
\* the mode h.keymap names.
reset_action_states(h) ==
    [ h EXCEPT !.keymaps[h.keymap] =
          [ key \in DOMAIN @ |-> action_state_defaults[h.mode][key] ] ]

\* self.modes[self.mode]['exit'](), line 109: the callback removes its
\* tasks; when a removal raises, the callback has not run to its end.
mode_exit(h) ==
    LET removed == remove_tasks(h.tasks, exit_tasks[h.mode])
    IN  IF removed.error # "none"
          THEN [ h EXCEPT !.tasks = removed.tasks, !.error = removed.error ]
          ELSE [ h EXCEPT !.tasks = removed.tasks,
                          !.entered = @ \ { h.mode },
                          !.last = "exit",
                          !.exits = @ + 1,
                          !.bound_at_exit = h.accepted # {},
                          !.changed_at_exit =
                              IF h.keymaps[h.keymap] # action_state_defaults[h.mode]
                                THEN @ \cup { h.mode } ELSE @ ]

\* A change_mode that takes any name for a mode.
mode_known_any(h, mode) == TRUE

\* assert mode in self.modes, line 93.
mode_known(h, mode) == mode \in DOMAIN h.keymaps

\* lines 98-99: self.modes[mode] raises KeyError for a name that is not a
\* key, when self.mode has been assigned.
set_mode(h, mode) ==
    IF mode \in DOMAIN h.keymaps
      THEN [ h EXCEPT !.mode = mode, !.keymap = mode ]
      ELSE [ h EXCEPT !.mode = mode, !.error = "KeyError in modes" ]

\* self.modes[mode]['enter'](), line 100: the callback finds the keymap
\* as it is and binds its keystrokes.
mode_enter(h) ==
    [ h EXCEPT !.entered = @ \cup { h.mode },
               !.last = "enter",
               !.accepted = enter_bindings[h.mode],
               !.tasks = @ \cup enter_tasks[h.mode],
               !.at_enter = h.keymaps[h.keymap] ]

\* change_mode(mode) is called, by a task or at start (lines 240, 278).
handler_change_mode(mode) ==
    /\ handler.pc = "idle"
    /\ handler' = IF mode_known(handler, mode)
                    THEN [ handler EXCEPT !.pc = "end_mode", !.target = mode,
                                          !.exits = 0, !.bound_at_exit = FALSE,
                                          !.error = "none" ]
                    ELSE [ handler EXCEPT !.error = "AssertionError" ]
    /\ UNCHANGED << segs, ctor, table, conc, shots, keys, fn, cvars, evars >>

\* end_mode, lines 105 and 108.
handler_ignore_all ==
    /\ handler.pc = "end_mode"
    /\ handler' = [ ignoreAll(handler) EXCEPT
                      !.pc = IF handler.mode # "none" THEN "exit" ELSE "set" ]
    /\ UNCHANGED << segs, ctor, table, conc, shots, keys, fn, cvars, evars >>

\* end_mode, line 109.
handler_exit ==
    /\ handler.pc = "exit"
    /\ handler' = LET h == mode_exit(handler)
                  IN  [ h EXCEPT !.pc = IF h.error = "none" THEN "reset" ELSE "idle" ]
    /\ UNCHANGED << segs, ctor, table, conc, shots, keys, fn, cvars, evars >>

\* end_mode, line 110.
handler_reset ==
    /\ handler.pc = "reset"
    /\ handler' = [ reset_action_states(handler) EXCEPT !.pc = "set" ]
    /\ UNCHANGED << segs, ctor, table, conc, shots, keys, fn, cvars, evars >>

\* change_mode, lines 98-99.
handler_set ==
    /\ handler.pc = "set"
    /\ handler' = LET h == set_mode(handler, handler.target)
                  IN  [ h EXCEPT !.pc = IF h.error = "none" THEN "enter" ELSE "idle" ]
    /\ UNCHANGED << segs, ctor, table, conc, shots, keys, fn, cvars, evars >>

\* change_mode, line 100, and its return.
handler_enter ==
    /\ handler.pc = "enter"
    /\ handler' = [ mode_enter(handler) EXCEPT !.pc = "idle" ]
    /\ UNCHANGED << segs, ctor, table, conc, shots, keys, fn, cvars, evars >>

\* The run_simulation task comes to its end: the simulation is done, the
\* two tasks that show the shot are added and the task is registered no more.
run_simulation ==
    /\ handler.pc = "idle"
    /\ handler.mode = "shot"
    /\ "run_simulation" \in handler.tasks
    /\ handler' = [ handler EXCEPT
                      !.tasks = (@ \ { "run_simulation" })
                                  \cup { "shot_view_task", "shot_animation_task" } ]
    /\ UNCHANGED << segs, ctor, table, conc, shots, keys, fn, cvars, evars >>

\* A keystroke that is accepted arrives between two tasks.
handler_keystroke(b) ==
    /\ handler.pc = "idle"
    /\ b \in handler.accepted
    /\ handler' = [ handler EXCEPT
                      !.keymaps[handler.keymap] = update_key_map(@, b[2], b[3]) ]
    /\ UNCHANGED << segs, ctor, table, conc, shots, keys, fn, cvars, evars >>

AllBindings == UNION { enter_bindings[m] : m \in HandlerModes }

mInit ==
    /\ handler = handler_init
    /\ keys = NoKeys
    /\ fn = NoCall
    /\ gNone
    /\ yNone
    /\ sInit

mNext ==
    \/ \E mode \in HandlerModes \cup UnknownModes : handler_change_mode(mode)
    \/ handler_ignore_all
    \/ handler_exit
    \/ handler_reset
    \/ handler_set
    \/ handler_enter
    \/ run_simulation
    \/ \E b \in AllBindings : handler_keystroke(b)

SpecHandler == mInit /\ [][mNext]_vars

C30_DefaultsAtEnter ==
    /\ handler.pc = "enter" =>
          handler.keymaps[handler.keymap] = action_state_defaults[handler.mode]
    /\ (handler.pc = "idle" /\ handler.mode # "none") =>
          handler.at_enter = action_state_defaults[handler.mode]

\* View was left with action states that keystrokes had changed and is being
\* entered again: its keymap has move set and every other action clear.
C30_Witness ==
    /\ handler.pc = "enter"
    /\ handler.mode = "view"
    /\ "view" \in handler.changed_at_exit
    /\ handler.keymaps["view"]["move"]
    /\ \A a \in DOMAIN handler.keymaps["view"] \ { "move" } :
          ~handler.keymaps["view"][a]

\* C31: no exit callback asks to remove a task that is not registered, and
\* once a mode has been left none of the tasks its enter callback added is
\* registered.
C31_ExitRemovesEntered ==
    /\ handler.error # "KeyError in remove_task"
    /\ (handler.pc \in { "reset", "set" } /\ handler.mode # "none") =>
          handler.tasks \cap enter_tasks[handler.mode] = {}

\* C32: change_mode with a name that is not a key of self.modes raises and
\* changes nothing: the mode and the keymap, the action states, the
\* keystrokes accepted, the tasks registered and the callbacks run are as
\* they were.
C32_UnknownModeFrame ==
    [][ \A mode \in UnknownModes :
          handler_change_mode(mode) =>
              /\ handler'.error = "AssertionError"
              /\ handler'.pc = "idle"
              /\ handler'.mode = handler.mode
              /\ handler'.keymap = handler.keymap
              /\ handler'.keymaps = handler.keymaps
              /\ handler'.accepted = handler.accepted
              /\ handler'.tasks = handler.tasks
              /\ handler'.entered = handler.entered
              /\ handler'.last = handler.last ]_vars

\* change_mode with an unknown name has raised in view mode, whose action
\* states keystrokes had changed: view is still entered, with its bindings,
\* its tasks and the states as the keystrokes left them.
C32_Witness ==
    /\ handler.error = "AssertionError"
    /\ handler.pc = "idle"
    /\ handler.mode = "view"
    /\ handler.keymap = "view"
    /\ handler.entered = { "view" }
    /\ handler.accepted = enter_bindings["view"]
    /\ handler.tasks = enter_tasks["view"]
    /\ handler.keymaps["view"]["zoom"]
    /\ ~handler.keymaps["view"]["move"]

=============================================================================
